---- MODULE Spec2Model ----
(***************************************************************************)
(* A model of the seqtree engine: feature bitmaps, timestep samples,       *)
(* decision trees with union branches, the boosted model and its           *)
(* evaluation, and the greedy tree builder.                                *)
(*                                                                         *)
(* Vectors (outputs, output deltas, per-sample loss vectors) are integer   *)
(* sequences; quality comparisons are carried out in exact rational        *)
(* arithmetic.                                                             *)
(***************************************************************************)
EXTENDS Integers, Sequences, FiniteSets, TLC

VARIABLES
    fin,      \* pure-function harness: the inputs of the call
    fout,     \* pure-function harness: the result of the call
    m,        \* the Model: BaseFeatures, ExtraFeatures, Trees
    seq,      \* the Sequence being evaluated by Model.EvaluateAt
    ev,       \* position of EvaluateAt: pc, tree index k, timestep index i, start
    hist,     \* history of EvaluateAt: the sequence at the call, the applications made
    ea,       \* Model.EvaluateAll: channel, worker positions, wait group, caller position
    bcfg,     \* the Builder's configuration
    bdata,    \* the sequence the builder's samples point into
    bstack,   \* the builder's pending calls (build / buildUnion), innermost first
    btree,    \* the nodes the builder has emitted, by path from the root
    blog,     \* the builder's position and the record of its calls
    pr,       \* Pruner.Prune: version, samples, the input tree, the current result
    sc,       \* ScaleOptimalStep: the tree, the samples, the leaves processed
    of,       \* Builder.optimalFeature: the closure's variables and the workers
    sf,       \* Builder.sortFeatures: the channel, the producer and the workers
    stp       \* step control and utilities: the call, its inputs and its result

fnVars == <<fin, fout>>
evalVars == <<m, seq, ev, hist>>
allVars == <<ea>>
buildVars == <<bcfg, bdata, bstack, btree, blog>>
laterVars == <<pr, sc, of, sf, stp>>
vars == <<fin, fout, m, seq, ev, hist, ea, bcfg, bdata, bstack, btree, blog, pr, sc, of, sf, stp>>

(***************************************************************************)
(* Bounds of the model.                                                    *)
(***************************************************************************)
FnSeqLen == 2       \* pure-function harness: timesteps of the sequence
FnBits == 1         \* pure-function harness: bits per bitmap
FnUnionLen == 2     \* pure-function harness: longest union drawn
EvMaxBase == 1      \* boosting: largest BaseFeatures
EvMaxTrees == 2     \* boosting: rounds (trees added)
EvSeqLen == 2       \* boosting: timesteps of the evaluated sequence
AllMaxSeqs == 2     \* EvaluateAll: sequences in the list
AllMaxWorkers == 2  \* EvaluateAll: GOMAXPROCS

(***************************************************************************)
(* Arithmetic helpers.                                                     *)
(***************************************************************************)
RECURSIVE Pow2(_)
Pow2(n) == IF n = 0 THEN 1 ELSE 2 * Pow2(n - 1)

RECURSIVE SeqSum(_)
SeqSum(s) == IF s = <<>> THEN 0 ELSE Head(s) + SeqSum(Tail(s))

\* Rationals <<numerator, denominator>> with a positive denominator, in
\* lowest terms: the exact values of the builder's float32 quantities.
Abs(x) == IF x < 0 THEN -x ELSE x

RECURSIVE Gcd(_, _)
Gcd(a, b) == IF b = 0 THEN a ELSE Gcd(b, a % b)

Rat(n, d) ==
    LET g == Gcd(Abs(n), Abs(d))
        sgn == IF d < 0 THEN -1 ELSE 1
    IN <<sgn * (n \div g), sgn * (d \div g)>>

RInt(n) == <<n, 1>>
RAdd(a, b) == Rat(a[1] * b[2] + b[1] * a[2], a[2] * b[2])
RSub(a, b) == Rat(a[1] * b[2] - b[1] * a[2], a[2] * b[2])
RMul(a, b) == Rat(a[1] * b[1], a[2] * b[2])
RDiv(a, b) == Rat(a[1] * b[2], a[2] * b[1])
RLess(a, b) == a[1] * b[2] < b[1] * a[2]
RAbs(a) == <<Abs(a[1]), a[2]>>
RMin(a, b) == IF RLess(b, a) THEN b ELSE a
\* int(x) for x >= 0: truncation.
RTrunc(a) == a[1] \div a[2]

(***************************************************************************)
(* Bitmap: numBits and packed bytes, bit i at byte i>>3, mask 1<<(i&7).    *)
(***************************************************************************)
NumBytes(numBits) == (numBits \div 8) + (IF numBits % 8 # 0 THEN 1 ELSE 0)

NewBitmap(numBits) ==
    [numBits |-> numBits, bytes |-> [j \in 1..NumBytes(numBits) |-> 0]]

\* The range check of Get and Set: TRUE when the access panics.
BitmapOutOfRange(b, i) == i < 0 \/ i >= b.numBits

BitmapGet(b, i) == (b.bytes[(i \div 8) + 1] \div Pow2(i % 8)) % 2 = 1

\* Set(i, true): OR the mask into the byte.
BitmapSetTrue(b, i) ==
    IF BitmapGet(b, i) THEN b
    ELSE [b EXCEPT !.bytes[(i \div 8) + 1] = @ + Pow2(i % 8)]

\* All bitmaps of numBits bits.
Bitmaps(numBits) ==
    IF numBits = 0 THEN {NewBitmap(0)}
    ELSE {[numBits |-> numBits, bytes |-> bs] :
            bs \in {x \in [1..NumBytes(numBits) -> 0..255] :
                      \A j \in 1..NumBytes(numBits) :
                         (j = NumBytes(numBits) /\ numBits % 8 # 0)
                            => x[j] < Pow2(numBits % 8)}}

(***************************************************************************)
(* Timestep, Sequence, TimestepSample.                                     *)
(***************************************************************************)
Timestep(features, output, target) ==
    [Features |-> features, Output |-> output, Target |-> target]

TimestepSample(sequence, index) == [Sequence |-> sequence, Index |-> index]

BranchFeatureRec(f, k) == [Feature |-> f, StepsInPast |-> k]

\* The bitmap reads TimestepSample.BranchFeature makes: <<position, bit>>.
BranchFeatureReads(t, b) ==
    IF b.StepsInPast > t.Index THEN {}
    ELSE IF b.Feature = -1 THEN {}
    ELSE {<<t.Index - b.StepsInPast, b.Feature>>}

\* TRUE when TimestepSample.BranchFeature panics in Bitmap.Get.
BranchFeaturePanics(t, b) ==
    \E r \in BranchFeatureReads(t, b) :
        BitmapOutOfRange(t.Sequence[r[1] + 1].Features, r[2])

\* Mutation: the past-the-start test is off by one (>= for >).
BranchFeatureOffByOne(t, b) ==
    IF b.StepsInPast >= t.Index THEN b.Feature = -1
    ELSE IF b.Feature = -1 THEN FALSE
    ELSE BitmapGet(t.Sequence[(t.Index - b.StepsInPast) + 1].Features, b.Feature)

\* TimestepSample.BranchFeature (indices are 0-based, sequences 1-based).
BranchFeature(t, b) ==
    IF b.StepsInPast > t.Index THEN b.Feature = -1
    ELSE IF b.Feature = -1 THEN FALSE
    ELSE BitmapGet(t.Sequence[(t.Index - b.StepsInPast) + 1].Features, b.Feature)

(***************************************************************************)
(* Tree, Branch, Leaf.                                                     *)
(***************************************************************************)
LeafTree(delta, feature) ==
    [kind |-> "leaf", OutputDelta |-> delta, Feature |-> feature]

BranchTree(union, falseBranch, trueBranch) ==
    [kind |-> "branch", Feature |-> union,
     FalseBranch |-> falseBranch, TrueBranch |-> trueBranch]

\* The loop of Tree.Evaluate over the union's members, in order: TRUE as
\* soon as one member tests true, FALSE when the members are exhausted.
RECURSIVE UnionLoop(_, _, _)
UnionLoop(ts, union, j) ==
    IF j > Len(union) THEN FALSE
    ELSE IF BranchFeature(ts, union[j]) THEN TRUE
    ELSE UnionLoop(ts, union, j + 1)

\* Mutation: only the first member of the union is tested.
UnionTestFirstOnly(ts, union) ==
    union # <<>> /\ BranchFeature(ts, union[1])

UnionTest(ts, union) == UnionLoop(ts, union, 1)

RECURSIVE TreeEvaluate(_, _)
TreeEvaluate(t, ts) ==
    IF t.kind = "leaf" THEN t
    ELSE IF UnionTest(ts, t.Feature) THEN TreeEvaluate(t.TrueBranch, ts)
    ELSE TreeEvaluate(t.FalseBranch, ts)

RECURSIVE TreeNumFeatures(_)
TreeNumFeatures(t) ==
    IF t.kind = "leaf" THEN (IF t.Feature # 0 THEN 1 ELSE 0)
    ELSE TreeNumFeatures(t.FalseBranch) + TreeNumFeatures(t.TrueBranch)

RECURSIVE TreeScale(_, _)
TreeScale(t, s) ==
    IF t.kind = "leaf"
    THEN [t EXCEPT !.OutputDelta = [j \in DOMAIN t.OutputDelta |-> t.OutputDelta[j] * s]]
    ELSE [t EXCEPT !.FalseBranch = TreeScale(t.FalseBranch, s),
                   !.TrueBranch = TreeScale(t.TrueBranch, s)]

\* Tree.Evaluate panics when a branch feature it tests, before it returns,
\* reads a bit out of range.
RECURSIVE UnionLoopPanics(_, _, _)
UnionLoopPanics(ts, union, j) ==
    IF j > Len(union) THEN FALSE
    ELSE IF BranchFeaturePanics(ts, union[j]) THEN TRUE
    ELSE IF BranchFeature(ts, union[j]) THEN FALSE
    ELSE UnionLoopPanics(ts, union, j + 1)

RECURSIVE TreeEvaluatePanics(_, _)
TreeEvaluatePanics(t, ts) ==
    IF t.kind = "leaf" THEN FALSE
    ELSE IF UnionLoopPanics(ts, t.Feature, 1) THEN TRUE
    ELSE IF UnionTest(ts, t.Feature) THEN TreeEvaluatePanics(t.TrueBranch, ts)
    ELSE TreeEvaluatePanics(t.FalseBranch, ts)

\* The leaves of a tree, false subtree first.
RECURSIVE TreeLeaves(_)
TreeLeaves(t) ==
    IF t.kind = "leaf" THEN <<t>>
    ELSE TreeLeaves(t.FalseBranch) \o TreeLeaves(t.TrueBranch)

\* The branch features a tree tests.
RECURSIVE TreeBranchFeatures(_)
TreeBranchFeatures(t) ==
    IF t.kind = "leaf" THEN {}
    ELSE {t.Feature[j] : j \in 1..Len(t.Feature)}
           \cup TreeBranchFeatures(t.FalseBranch) \cup TreeBranchFeatures(t.TrueBranch)

\* AddLeafFeatures: leaf i of Leaves() gets feature start + i.
RECURSIVE AddLeafFeatures(_, _)
AddLeafFeatures(t, start) ==
    IF t.kind = "leaf" THEN [t EXCEPT !.Feature = start]
    ELSE LET f == AddLeafFeatures(t.FalseBranch, start)
         IN [t EXCEPT !.FalseBranch = f,
                      !.TrueBranch = AddLeafFeatures(t.TrueBranch,
                                                     start + Len(TreeLeaves(f)))]

\* The numbering of Builder.build / buildSubtree: a leaf gets nextNewFeature,
\* the true subtree starts at nextNewFeature + tree1.NumFeatures().
RECURSIVE BuildNumbering(_, _)
BuildNumbering(t, nextNewFeature) ==
    IF t.kind = "leaf" THEN [t EXCEPT !.Feature = nextNewFeature]
    ELSE LET tree1 == BuildNumbering(t.FalseBranch, nextNewFeature)
         IN [t EXCEPT !.FalseBranch = tree1,
                      !.TrueBranch = BuildNumbering(t.TrueBranch,
                                        nextNewFeature + TreeNumFeatures(tree1))]

(***************************************************************************)
(* Model.                                                                  *)
(***************************************************************************)
ModelNumFeatures(mm) == mm.BaseFeatures + mm.ExtraFeatures

\* Mutation: Add counts every leaf of the tree as a new feature.
ModelAddCountLeaves(mm, t, stepSize) ==
    [mm EXCEPT !.Trees = Append(@, TreeScale(t, -stepSize)),
               !.ExtraFeatures = @ + Len(TreeLeaves(t))]

ModelAdd(mm, t, stepSize) ==
    LET scaled == TreeScale(t, -stepSize)
    IN [mm EXCEPT !.Trees = Append(@, scaled),
                  !.ExtraFeatures = @ + TreeNumFeatures(scaled)]

(***************************************************************************)
(* Values of the variables a specification does not use.                   *)
(***************************************************************************)
FnIdle ==
    /\ fin = [op |-> "none"]
    /\ fout = [op |-> "none"]

EvalIdle ==
    /\ m = [BaseFeatures |-> 0, ExtraFeatures |-> 0, Trees |-> <<>>]
    /\ seq = <<>>
    /\ ev = [pc |-> "idle", k |-> 0, i |-> 0, start |-> 0]
    /\ hist = [base0 |-> 0, added |-> <<>>, seq0 |-> <<>>, log |-> <<>>]

AllIdle ==
    ea = [pc |-> "idle", version |-> "none", nseq |-> 0, nworkers |-> 0, ch |-> <<>>,
          spawned |-> 0, wg |-> 0, w |-> <<>>, evals |-> <<>>, by |-> <<>>]

BuildIdle ==
    /\ bcfg = [op |-> "none"]
    /\ bdata = <<>>
    /\ bstack = <<>>
    /\ btree = <<>>
    /\ blog = [pc |-> "idle", calls |-> {}, steps |-> {}]

PruneIdle == pr = [pc |-> "idle"]
ScaleIdle == sc = [pc |-> "idle"]
OptimalIdle == of = [pc |-> "idle"]
SortIdle == sf = [pc |-> "idle"]
StepIdle == stp = [pc |-> "idle"]
LaterIdle == PruneIdle /\ ScaleIdle /\ OptimalIdle /\ SortIdle /\ StepIdle

(***************************************************************************)
(* Pure-function harness: a sequence whose bitmaps are filled through      *)
(* NewBitmap and Set, on which BranchFeature and Tree.Evaluate are called. *)
(***************************************************************************)
RECURSIVE BitmapFromSet(_, _)
BitmapFromSet(numBits, S) ==
    IF S = {} THEN NewBitmap(numBits)
    ELSE LET i == CHOOSE x \in S : TRUE
         IN BitmapSetTrue(BitmapFromSet(numBits, S \ {i}), i)

FnFeatures == {BranchFeatureRec(f, k) : f \in -1..(FnBits - 1), k \in 0..FnSeqLen}

FnUnions == UNION {[1..n -> FnFeatures] : n \in 0..FnUnionLen}

FnFalseLeaf == LeafTree(<<0>>, 0)
FnTrueLeaf == LeafTree(<<1>>, 0)

FnSample(i) == TimestepSample(fin.Sequence, i)

InitFn ==
    /\ \E bits \in [1..FnSeqLen -> SUBSET (0..(FnBits - 1))] :
          fin = [op |-> "none", bits |-> bits,
                 Sequence |-> [p \in 1..FnSeqLen |->
                                 Timestep(BitmapFromSet(FnBits, bits[p]), <<0>>, <<0>>)]]
    /\ fout = [op |-> "none"]
    /\ EvalIdle /\ AllIdle /\ BuildIdle /\ LaterIdle

CallBranchFeature ==
    /\ fin.op = "none"
    /\ \E i \in 0..(FnSeqLen - 1), b \in FnFeatures :
          /\ fin' = [op |-> "BranchFeature", bits |-> fin.bits,
                     Sequence |-> fin.Sequence, Index |-> i, b |-> b]
          /\ fout' = [op |-> "BranchFeature",
                      panics |-> BranchFeaturePanics(FnSample(i), b),
                      reads |-> BranchFeatureReads(FnSample(i), b),
                      value |-> BranchFeature(FnSample(i), b)]
    /\ UNCHANGED <<evalVars, allVars, buildVars, laterVars>>

CallTreeEvaluate ==
    /\ fin.op = "none"
    /\ \E i \in 0..(FnSeqLen - 1), u \in FnUnions :
          /\ fin' = [op |-> "TreeEvaluate", bits |-> fin.bits,
                     Sequence |-> fin.Sequence, Index |-> i, union |-> u]
          /\ fout' = [op |-> "TreeEvaluate",
                      leaf |-> TreeEvaluate(BranchTree(u, FnFalseLeaf, FnTrueLeaf),
                                            FnSample(i))]
    /\ UNCHANGED <<evalVars, allVars, buildVars, laterVars>>

NextFn == CallBranchFeature \/ CallTreeEvaluate

SpecFn == InitFn /\ [][NextFn]_vars

\* What a branch feature means on the ground-truth bit sets of the sequence.
FnMemberTrue(i, b) ==
    IF b.Feature = -1 THEN b.StepsInPast > i
    ELSE /\ b.StepsInPast <= i
         /\ b.Feature \in fin.bits[(i - b.StepsInPast) + 1]

\* C5: the sentinel (-1, k) tests true iff k > i and reads no bitmap; a
\* feature f >= 0 tests false when k > i and otherwise equals bit f of the
\* timestep at position i - k.
C5_BranchFeature ==
    fin.op = "BranchFeature" =>
        LET i == fin.Index
            f == fin.b.Feature
            k == fin.b.StepsInPast
        IN /\ ~fout.panics
           /\ f = -1 => (fout.value = (k > i) /\ fout.reads = {})
           /\ (f >= 0 /\ k > i) => (fout.value = FALSE /\ fout.reads = {})
           /\ (f >= 0 /\ k <= i) =>
                 /\ fout.value = (f \in fin.bits[(i - k) + 1])
                 /\ fout.reads = {<<i - k, f>>}

C5_Witness ==
    /\ fin.op = "BranchFeature"
    /\ fin.b.Feature >= 0
    /\ fin.b.StepsInPast >= 1
    /\ fin.b.StepsInPast <= fin.Index
    /\ fout.value = TRUE
    /\ fin.b.Feature \notin fin.bits[fin.Index + 1]

\* C6: a branch routes to its true child iff some member of the union
\* tests true, in whatever order the members are listed; an empty union
\* routes to the false child.
C6_UnionIsOr ==
    fin.op = "TreeEvaluate" =>
        LET i == fin.Index
            u == fin.union
            any == \E j \in 1..Len(u) : FnMemberTrue(i, u[j])
            rev == [j \in 1..Len(u) |-> u[Len(u) + 1 - j]]
        IN /\ fout.leaf = (IF any THEN FnTrueLeaf ELSE FnFalseLeaf)
           /\ fout.leaf = TreeEvaluate(BranchTree(rev, FnFalseLeaf, FnTrueLeaf), FnSample(i))
           /\ u = <<>> => fout.leaf = FnFalseLeaf

C6_Witness ==
    /\ fin.op = "TreeEvaluate"
    /\ Len(fin.union) = 2
    /\ ~FnMemberTrue(fin.Index, fin.union[1])
    /\ FnMemberTrue(fin.Index, fin.union[2])
    /\ fout.leaf = FnTrueLeaf

(***************************************************************************)
(* Boosting rounds and Model.EvaluateAt.  A round numbers the leaves of a  *)
(* new tree from NumFeatures() on and adds the tree; EvaluateAt runs one   *)
(* (tree, timestep) iteration per step.                                    *)
(***************************************************************************)
\* Trees of a round on bitmaps of n bits: a single leaf, or one branch on a
\* feature the builder enumerates (the sentinel or the newest feature,
\* horizons 0 and 1).
EvShapes(n) ==
    {LeafTree(<<1>>, 0)} \cup
    {BranchTree(<<BranchFeatureRec(f, h)>>, LeafTree(<<1>>, 0), LeafTree(<<2>>, 0)) :
        f \in {-1, n - 1}, h \in 0..1}

\* Mutation: the leaf ids start at the newest existing feature.
EvNumberedFromLast(t, mode, n) ==
    IF mode = "none" THEN t ELSE AddLeafFeatures(t, IF n > 0 THEN n - 1 ELSE 0)

EvNumbered(t, mode, n) ==
    IF mode = "build" THEN BuildNumbering(t, n)
    ELSE IF mode = "AddLeafFeatures" THEN AddLeafFeatures(t, n)
    ELSE t

InitEval ==
    /\ \E base \in 0..EvMaxBase :
          /\ m = [BaseFeatures |-> base, ExtraFeatures |-> 0, Trees |-> <<>>]
          /\ hist = [base0 |-> base, added |-> <<>>, seq0 |-> <<>>, log |-> <<>>,
                     pass |-> 0, first |-> <<>>, m0 |-> <<>>]
    /\ seq = <<>>
    /\ ev = [pc |-> "idle", k |-> 0, i |-> 0, start |-> 0]
    /\ FnIdle /\ AllIdle /\ BuildIdle /\ LaterIdle

\* One boosting round: number the leaves of a tree, then Model.Add.
Round ==
    /\ ev.pc = "idle"
    /\ Len(m.Trees) < EvMaxTrees
    /\ \E shape \in EvShapes(ModelNumFeatures(m)),
          mode \in {"build", "AddLeafFeatures", "none"},
          stepSize \in {Len(m.Trees) + 1} :
          LET t == EvNumbered(shape, mode, ModelNumFeatures(m))
          IN /\ m' = ModelAdd(m, t, stepSize)
             /\ hist' = [hist EXCEPT !.added =
                                        Append(@, [tree |-> t, stepSize |-> stepSize])]
    /\ UNCHANGED <<seq, ev, fnVars, allVars, buildVars, laterVars>>

\* The loops of EvaluateAt: the position after iteration (k, i).
\* Mutation: the timestep loop is outermost.
EvalNextTimestepOuter(e, nTrees, len) ==
    IF e.k + 1 < nTrees THEN [e EXCEPT !.k = e.k + 1]
    ELSE IF e.i + 1 < len THEN [e EXCEPT !.k = 0, !.i = e.i + 1]
    ELSE [e EXCEPT !.pc = "done"]

\* Mutation: the next tree starts at the first timestep.
EvalNextFromZero(e, nTrees, len) ==
    IF e.i + 1 < len THEN [e EXCEPT !.i = e.i + 1]
    ELSE IF e.k + 1 < nTrees THEN [e EXCEPT !.k = e.k + 1, !.i = 0]
    ELSE [e EXCEPT !.pc = "done"]

EvalNext(e, nTrees, len) ==
    IF e.i + 1 < len THEN [e EXCEPT !.i = e.i + 1]
    ELSE IF e.k + 1 < nTrees THEN [e EXCEPT !.k = e.k + 1, !.i = e.start]
    ELSE [e EXCEPT !.pc = "done"]

\* blas32.Axpy(len, 1.0, delta, output).
Axpy(delta, output) == [j \in DOMAIN output |-> output[j] + delta[j]]

\* The call m.EvaluateAt(seq, start) on a fresh sequence whose bitmaps have
\* NumFeatures() bits, the last base feature filled in.
EvaluateAt(start) ==
    /\ ev.pc = "idle"
    /\ \E bits \in [1..EvSeqLen -> SUBSET ((m.BaseFeatures - 1)..(m.BaseFeatures - 1) \ {-1})] :
          LET s0 == [p \in 1..EvSeqLen |->
                       Timestep(BitmapFromSet(ModelNumFeatures(m), bits[p]), <<0>>, <<0>>)]
          IN /\ seq' = s0
             /\ hist' = [hist EXCEPT !.seq0 = s0, !.log = <<>>, !.pass = 1, !.m0 = m]
             /\ ev' = IF Len(m.Trees) = 0 \/ start >= EvSeqLen
                       THEN [pc |-> "done", k |-> 0, i |-> start, start |-> start]
                       ELSE [pc |-> "loop", k |-> 0, i |-> start, start |-> start]
    /\ UNCHANGED <<m, fnVars, allVars, buildVars, laterVars>>

EvalStart == \E start \in 0..EvSeqLen : EvaluateAt(start)

\* Model.Evaluate on a fresh sequence.
Evaluate == EvaluateAt(0)

\* Model.Evaluate once more on the sequence the first call left.
EvaluateAgain ==
    /\ ev.pc = "done" /\ hist.pass = 1 /\ ev.start = 0
    /\ hist' = [hist EXCEPT !.pass = 2, !.first = [log |-> hist.log, seq |-> seq],
                            !.seq0 = seq, !.log = <<>>]
    /\ ev' = IF Len(m.Trees) = 0 \/ 0 >= EvSeqLen
              THEN [pc |-> "done", k |-> 0, i |-> 0, start |-> 0]
              ELSE [pc |-> "loop", k |-> 0, i |-> 0, start |-> 0]
    /\ UNCHANGED <<m, seq, fnVars, allVars, buildVars, laterVars>>

\* One iteration of the inner loop of EvaluateAt.
EvalStep ==
    /\ ev.pc = "loop"
    /\ LET t == m.Trees[ev.k + 1]
           ts == TimestepSample(seq, ev.i)
       IN IF TreeEvaluatePanics(t, ts)
          THEN /\ ev' = [ev EXCEPT !.pc = "panic"]
               /\ UNCHANGED <<seq, hist>>
          ELSE LET leaf == TreeEvaluate(t, ts)
                   added == [seq EXCEPT ![ev.i + 1].Output = Axpy(leaf.OutputDelta, @)]
               IN IF leaf.Feature # 0
                     /\ BitmapOutOfRange(seq[ev.i + 1].Features, leaf.Feature)
                  THEN /\ seq' = added
                       /\ ev' = [ev EXCEPT !.pc = "panic"]
                       /\ UNCHANGED hist
                  ELSE /\ seq' = IF leaf.Feature # 0
                                  THEN [added EXCEPT ![ev.i + 1].Features =
                                                        BitmapSetTrue(@, leaf.Feature)]
                                  ELSE added
                       /\ hist' = [hist EXCEPT !.log =
                                      Append(@, [k |-> ev.k, i |-> ev.i, leaf |-> leaf])]
                       /\ ev' = EvalNext(ev, Len(m.Trees), Len(seq))
    /\ UNCHANGED <<m, fnVars, allVars, buildVars, laterVars>>

NextEval == Round \/ EvalStart \/ EvalStep

SpecEval == InitEval /\ [][NextEval]_vars

NextEvalTwice == Round \/ Evaluate \/ EvalStep \/ EvaluateAgain

SpecEvalTwice == InitEval /\ [][NextEvalTwice]_vars

\* The sequence after the applications of a log, each adding the leaf's
\* output delta to its timestep's output and setting the leaf's bit.
RECURSIVE ApplyLog(_, _)
ApplyLog(s0, log) ==
    IF log = <<>> THEN s0
    ELSE LET before == ApplyLog(s0, SubSeq(log, 1, Len(log) - 1))
             e == log[Len(log)]
             out == [j \in DOMAIN before[e.i + 1].Output |->
                       before[e.i + 1].Output[j] + e.leaf.OutputDelta[j]]
             bm == before[e.i + 1].Features
             bits == IF e.leaf.Feature = 0 THEN bm
                     ELSE [bm EXCEPT !.bytes[(e.leaf.Feature \div 8) + 1] =
                             IF (@ \div Pow2(e.leaf.Feature % 8)) % 2 = 1 THEN @
                             ELSE @ + Pow2(e.leaf.Feature % 8)]
         IN [before EXCEPT ![e.i + 1] = [@ EXCEPT !.Output = out, !.Features = bits]]

\* C1: the applications of EvaluateAt come tree by tree in insertion order,
\* each tree on every timestep from start on before the next tree begins;
\* each routes its timestep on the sequence as all earlier applications
\* left it, adds the reached leaf's delta and sets its non-zero feature bit.
C1_TreeLoopOutermost ==
    LET log == hist.log
        cnt == EvSeqLen - ev.start
    IN ev.pc \in {"loop", "done"} =>
        /\ \A p \in 1..Len(log) :
              /\ log[p].k = (p - 1) \div cnt
              /\ log[p].i = ev.start + ((p - 1) % cnt)
              /\ log[p].leaf =
                    TreeEvaluate(m.Trees[log[p].k + 1],
                                 TimestepSample(ApplyLog(hist.seq0, SubSeq(log, 1, p - 1)),
                                                log[p].i))
        /\ seq = ApplyLog(hist.seq0, log)
        /\ ev.pc = "loop" => Len(log) = ev.k * cnt + (ev.i - ev.start)
        /\ ev.pc = "done" => Len(log) = (IF cnt > 0 THEN Len(m.Trees) * cnt ELSE 0)

\* A later tree took its true branch on a bit that an earlier tree's leaf
\* set one timestep before.
C1_Witness ==
    /\ ev.pc = "done"
    /\ \E p \in 1..Len(hist.log) :
          LET t == m.Trees[hist.log[p].k + 1]
          IN /\ hist.log[p].k >= 1
             /\ t.kind = "branch"
             /\ t.Feature[1].Feature >= m.BaseFeatures
             /\ t.Feature[1].StepsInPast = 1
             /\ hist.log[p].leaf = t.TrueBranch

\* C2: every feature a branch tests and every feature id a leaf sets is
\* below BaseFeatures + ExtraFeatures, and evaluation on bitmaps of
\* NumFeatures() bits never accesses a bit out of range.
C2_FeaturesInRange ==
    /\ \A j \in 1..Len(m.Trees) :
          /\ \A bf \in TreeBranchFeatures(m.Trees[j]) : bf.Feature < ModelNumFeatures(m)
          /\ \A l \in 1..Len(TreeLeaves(m.Trees[j])) :
                TreeLeaves(m.Trees[j])[l].Feature # 0
                   => TreeLeaves(m.Trees[j])[l].Feature < ModelNumFeatures(m)
    /\ ev.pc # "panic"

\* The same with BaseFeatures >= 1.
C2_FeaturesInRangePositiveBase ==
    m.BaseFeatures >= 1 => C2_FeaturesInRange

\* The new-feature count of a tree: its leaves with a non-zero feature id.
NewFeatureCount(t) ==
    Cardinality({l \in 1..Len(TreeLeaves(t)) : TreeLeaves(t)[l].Feature # 0})

RECURSIVE SumNewFeatures(_)
SumNewFeatures(added) ==
    IF added = <<>> THEN 0
    ELSE SumNewFeatures(SubSeq(added, 1, Len(added) - 1))
           + NewFeatureCount(added[Len(added)].tree)

\* C4: after any sequence of Add calls the tree list holds the added trees
\* in the order of the calls (each as scaled at its own call, untouched by
\* later calls), BaseFeatures is as at construction, and ExtraFeatures is
\* the sum of the added trees' new-feature counts.
C4_AddFrame ==
    /\ Len(m.Trees) = Len(hist.added)
    /\ \A j \in 1..Len(m.Trees) :
          /\ m.Trees[j].kind = hist.added[j].tree.kind
          /\ m.Trees[j] = TreeScale(hist.added[j].tree, -hist.added[j].stepSize)
    /\ m.BaseFeatures = hist.base0
    /\ m.ExtraFeatures = SumNewFeatures(hist.added)
    /\ ModelNumFeatures(m) = hist.base0 + SumNewFeatures(hist.added)

C4_Witness ==
    /\ Len(m.Trees) = 2
    /\ NewFeatureCount(hist.added[1].tree) = 2
    /\ NewFeatureCount(hist.added[2].tree) = 0
    /\ Len(TreeLeaves(hist.added[2].tree)) = 2
    /\ m.ExtraFeatures = 2

(***************************************************************************)
(* Model.EvaluateAll: the caller fills and closes the channel, starts      *)
(* GOMAXPROCS workers and returns; each worker receives sequences from the *)
(* channel until it is drained and evaluates them.  The two versions of    *)
(* the function differ in the caller's last step: src/model.go returns     *)
(* when the workers are started, src/unnamed/part_012 waits for them.      *)
(***************************************************************************)
\* The state after `close(ch)`: every sequence is in the buffered channel.
InitAll ==
    /\ \E n \in 0..AllMaxSeqs, procs \in 1..AllMaxWorkers,
          version \in {"model.go", "part_012"} :
          ea = [pc |-> "spawn", version |-> version, nseq |-> n, nworkers |-> procs,
                ch |-> [j \in 1..n |-> j], spawned |-> 0, wg |-> 0,
                w |-> [j \in 1..procs |-> [pc |-> "unborn", cur |-> 0]],
                evals |-> [j \in 1..n |-> 0],
                by |-> [j \in 1..n |-> {}]]
    /\ FnIdle /\ EvalIdle /\ BuildIdle /\ LaterIdle

\* wg.Add(1); go func() {...}()
AllSpawn ==
    /\ ea.pc = "spawn"
    /\ ea.spawned < ea.nworkers
    /\ ea' = [ea EXCEPT !.wg = @ + 1, !.spawned = @ + 1,
                         !.w[ea.spawned + 1].pc = "recv"]
    /\ UNCHANGED <<fnVars, evalVars, buildVars, laterVars>>

\* src/model.go: the function ends after the loop that starts the workers.
AllReturn ==
    /\ ea.pc = "spawn"
    /\ ea.version = "model.go"
    /\ ea.spawned = ea.nworkers
    /\ ea' = [ea EXCEPT !.pc = "returned"]
    /\ UNCHANGED <<fnVars, evalVars, buildVars, laterVars>>

\* src/unnamed/part_012: wg.Wait() returns when the counter is zero.
AllWait ==
    /\ ea.pc = "spawn"
    /\ ea.version = "part_012"
    /\ ea.spawned = ea.nworkers
    /\ ea.wg = 0
    /\ ea' = [ea EXCEPT !.pc = "returned"]
    /\ UNCHANGED <<fnVars, evalVars, buildVars, laterVars>>

\* `for seq := range ch`: receive the next sequence, or leave the loop when
\* the closed channel is empty and run the deferred wg.Done().
AllWorkerRecv(j) ==
    /\ ea.w[j].pc = "recv"
    /\ ea' = IF ea.ch # <<>>
              THEN [ea EXCEPT !.ch = Tail(@), !.w[j] = [pc |-> "eval", cur |-> Head(ea.ch)],
                              !.by[Head(ea.ch)] = @ \cup {j}]
              ELSE [ea EXCEPT !.w[j].pc = "done", !.wg = @ - 1]
    /\ UNCHANGED <<fnVars, evalVars, buildVars, laterVars>>

\* m.Evaluate(seq) completes.
AllWorkerEval(j) ==
    /\ ea.w[j].pc = "eval"
    /\ ea' = [ea EXCEPT !.evals[ea.w[j].cur] = @ + 1, !.w[j] = [pc |-> "recv", cur |-> 0]]
    /\ UNCHANGED <<fnVars, evalVars, buildVars, laterVars>>

AllWorker == \E j \in 1..ea.nworkers : AllWorkerRecv(j) \/ AllWorkerEval(j)

NextAll == AllSpawn \/ AllReturn \/ AllWait \/ AllWorker

SpecAll == InitAll /\ [][NextAll]_vars

\* C7: when EvaluateAll returns, every sequence of the list has been
\* fully evaluated exactly once, by exactly one worker.
C7_ReturnsAfterWorkers ==
    ea.pc = "returned" =>
        \A x \in 1..ea.nseq : ea.evals[x] = 1 /\ Cardinality(ea.by[x]) = 1

\* The same for the version that ends in wg.Wait(), where in addition
\* every worker has completed at the return.
C7_ReturnsAfterWorkersWithWait ==
    (ea.version = "part_012" /\ ea.pc = "returned") =>
        /\ C7_ReturnsAfterWorkers
        /\ \A j \in 1..ea.nworkers : ea.w[j].pc = "done"

\* No sequence is ever evaluated twice or by two workers, in either version.
C7_AtMostOnce ==
    \A x \in 1..ea.nseq : ea.evals[x] <= 1 /\ Cardinality(ea.by[x]) <= 1

(***************************************************************************)
(* Builder: loss samples, split quality, candidate ranking.                *)
(* A loss sample is named by its Index into the sequence bdata.Sequence;   *)
(* its Vector is bdata.Vector[Index + 1].                                  *)
(***************************************************************************)
Max(a, b) == IF a > b THEN a ELSE b

LossSample(data, i) == TimestepSample(data.Sequence, i)

\* lossSample.BranchFeatureFast: the bit is read from the packed bytes.
BranchFeatureFast(l, stepsInPast, byteIdx, bitMask) ==
    IF stepsInPast > l.Index THEN byteIdx = -1
    ELSE IF byteIdx = -1 THEN FALSE
    ELSE (l.Sequence[(l.Index - stepsInPast) + 1].Features.bytes[byteIdx + 1]
             \div bitMask) % 2 = 1

\* Mutation: the mask is byte(1), not shifted.
evaluateFeatureArgsUnshifted(f) ==
    [byteIdx |-> IF f.Feature = -1 THEN -1 ELSE f.Feature \div 8, bitMask |-> 1]

\* The arguments evaluateFeature computes once per feature: byteIdx =
\* f.Feature >> 3, or -1 for the sentinel, bitMask = byte(1) << (f.Feature & 7).
evaluateFeatureArgs(f) ==
    [byteIdx |-> IF f.Feature = -1 THEN -1 ELSE f.Feature \div 8,
     bitMask |-> Pow2(f.Feature % 8)]

\* Builder.evaluateFeature: the value of f on every sample, and the counts.
EvaluateFeature(data, samples, f) ==
    LET args == evaluateFeatureArgs(f)
        values == [j \in 1..Len(samples) |->
                     BranchFeatureFast(LossSample(data, samples[j]),
                                       f.StepsInPast, args.byteIdx, args.bitMask)]
    IN [values |-> values,
        falses |-> Cardinality({j \in 1..Len(samples) : ~values[j]}),
        trues |-> Cardinality({j \in 1..Len(samples) : values[j]})]

\* Vectors as tuples of rationals.
RECURSIVE VectorAdd(_, _)
VectorAdd(a, b) ==
    IF a = <<>> THEN <<>>
    ELSE <<RAdd(Head(a), Head(b))>> \o VectorAdd(Tail(a), Tail(b))

RECURSIVE VectorScale(_, _)
VectorScale(a, c) ==
    IF a = <<>> THEN <<>> ELSE <<RMul(Head(a), c)>> \o VectorScale(Tail(a), c)

VectorSub(a, b) == VectorAdd(a, VectorScale(b, RInt(-1)))

RECURSIVE VectorZero(_)
VectorZero(dim) == IF dim = 0 THEN <<>> ELSE <<RInt(0)>> \o VectorZero(dim - 1)

RECURSIVE IntVector(_)
IntVector(v) == IF v = <<>> THEN <<>> ELSE <<RInt(Head(v))>> \o IntVector(Tail(v))

\* Sum of the Vectors of the samples at the positions in J.
RECURSIVE VectorSum(_, _, _)
VectorSum(data, samples, J) ==
    IF J = {} THEN VectorZero(data.dim)
    ELSE LET j == CHOOSE x \in J : TRUE
         IN VectorAdd(VectorSum(data, samples, J \ {j}),
                      IntVector(data.Vector[samples[j] + 1]))

newLossSums(data, falses, trues) ==
    [False |-> VectorSum(data, falses, 1..Len(falses)),
     True |-> VectorSum(data, trues, 1..Len(trues))]

RECURSIVE vectorNormSquaredFrom(_, _)
vectorNormSquaredFrom(v, d) ==
    IF d > Len(v) THEN RInt(0)
    ELSE RAdd(RMul(v[d], v[d]), vectorNormSquaredFrom(v, d + 1))

vectorNormSquared(v) == vectorNormSquaredFrom(v, 1)

\* Builder.computeSplitQuality, HigherOrder unset.
computeSplitQuality(falses, trues, falseCount, trueCount) ==
    LET tc == IF trueCount = RInt(0) THEN RInt(1) ELSE trueCount
        fc == IF trueCount # RInt(0) /\ falseCount = RInt(0) THEN RInt(1) ELSE falseCount
    IN RAdd(RDiv(vectorNormSquared(falses), fc), RDiv(vectorNormSquared(trues), tc))

\* The 1e-6 of featureSplitQuality, as a denominator.
MinDeltaDen == 1000000

\* |new - old| < |min(new, old)| * 1e-6, compared without leaving the
\* integer range.
InsignificantDelta(newQuality, oldQuality) ==
    LET delta == RAbs(RSub(newQuality, oldQuality))
        least == RAbs(RMin(newQuality, oldQuality))
        a == delta[1] * least[2]
        b == least[1] * delta[2]
    IN IF a = 0 THEN b > 0
       ELSE (b \div a) > MinDeltaDen \/ ((b \div a) = MinDeltaDen /\ b % a # 0)

\* Mutation: the early rejection ignores MinSplitSamples.
SplitRejectedEmptyOnly(cfg, lenFalses, lenTrues, splitFalseCount, splitTrueCount, sampleFrac) ==
    splitFalseCount = 0 \/ splitTrueCount = 0

\* The early rejection of featureSplitQuality.
SplitRejected(cfg, lenFalses, lenTrues, splitFalseCount, splitTrueCount, sampleFrac) ==
    LET approxTrues == RAdd(RInt(lenTrues), RDiv(RInt(splitTrueCount), sampleFrac))
        approxFalses == RDiv(RInt(lenFalses - splitTrueCount), sampleFrac)
    IN \/ splitFalseCount = 0
       \/ splitTrueCount = 0
       \/ RTrunc(approxTrues) < cfg.MinSplitSamples
       \/ RTrunc(approxFalses) < cfg.MinSplitSamples

\* Builder.featureSplitQuality; the result is a rational.
featureSplitQuality(cfg, data, falses, trues, sums, f, sampleFrac) ==
    LET e == EvaluateFeature(data, falses, f)
    IN IF SplitRejected(cfg, Len(falses), Len(trues), e.falses, e.trues, sampleFrac)
       THEN RInt(0)
       ELSE
         LET trueIsMinority == e.trues < e.falses
             minoritySum == VectorSum(data, falses,
                               {j \in 1..Len(falses) : e.values[j] = trueIsMinority})
             majoritySum == VectorSub(sums.False, minoritySum)
             splitTrueSum == IF trueIsMinority THEN minoritySum ELSE majoritySum
             newFalseSum == IF trueIsMinority THEN majoritySum ELSE minoritySum
             oldTrueSum == VectorScale(sums.True, sampleFrac)
             newTrueSum == VectorAdd(splitTrueSum, oldTrueSum)
             oldTrueCount == RMul(RInt(Len(trues)), sampleFrac)
             effectiveTrueCount == RAdd(RInt(e.trues), oldTrueCount)
             newQuality == computeSplitQuality(newFalseSum, newTrueSum,
                                               RInt(e.falses), effectiveTrueCount)
             oldQuality == computeSplitQuality(sums.False, oldTrueSum,
                                               RInt(Len(falses)), oldTrueCount)
         IN IF InsignificantDelta(newQuality, oldQuality) THEN RInt(0)
            ELSE RSub(newQuality, oldQuality)

\* The elements of s at the positions in J, in the order of s.
RECURSIVE PickFrom(_, _, _)
PickFrom(s, J, j) ==
    IF j > Len(s) THEN <<>>
    ELSE (IF j \in J THEN <<s[j]>> ELSE <<>>) \o PickFrom(s, J, j + 1)

\* subsampleLimit: every outcome of the random choice of max samples.  The
\* order of the chosen samples is immaterial to the exact sums.
subsampleLimit(samples, max) ==
    IF max # 0 /\ Len(samples) > max
    THEN {[samples |-> PickFrom(samples, J, 1), frac |-> Rat(max, Len(samples))] :
             J \in {K \in SUBSET (1..Len(samples)) : Cardinality(K) = max}}
    ELSE {[samples |-> samples, frac |-> RInt(1)]}

\* The candidates sortFeatures sends to its workers: for each horizon, the
\* sentinel -1 and every feature of the bitmap (ExtraFeatures is zero).
Candidates(cfg, numFeatures) ==
    {BranchFeatureRec(i, cfg.Horizons[h]) :
        i \in -1..(numFeatures - 1), h \in 1..Len(cfg.Horizons)}

\* Every list of the features of the scored set S (pairs <<feature,
\* quality>>) in order of decreasing quality; features of equal quality come
\* in any order (the workers append concurrently and the sort is not stable).
RECURSIVE SortedOrders(_)
SortedOrders(S) ==
    IF S = {} THEN {<<>>}
    ELSE UNION {{<<x[1]>> \o rest : rest \in SortedOrders(S \ {x})} :
                  x \in {y \in S : \A z \in S : ~RLess(y[2], z[2])}}

\* Builder.sortFeatures: the lists it can return.
sortFeatures(cfg, data, falses, trues, sampleFrac) ==
    LET numFeatures == data.Sequence[falses[1] + 1].Features.numBits
        sums == newLossSums(data, falses, trues)
        scored == {<<f, featureSplitQuality(cfg, data, falses, trues, sums, f, sampleFrac)>> :
                     f \in Candidates(cfg, numFeatures)}
    IN SortedOrders({x \in scored : RLess(RInt(0), x[2])})

\* Number of the reports at ranks 1..j whose quality is positive; a report
\* is a pair <<rank, quality>>.
Successes(reports, j) ==
    Cardinality({r \in reports : r[1] <= j /\ RLess(RInt(0), r[2])})

\* Builder.optimalFeature: the results it can return, <<>> for nil.  The
\* features are handed out in rank order while fewer than max(1,
\* CandidateSplits) successes are recorded; each of the other GOMAXPROCS - 1
\* workers may hold one success not yet recorded.  The best recorded quality
\* wins, the first recorded among equals.
optimalFeature(cfg, data, falses, trues, f) ==
    LET sums == newLossSums(data, falses, trues)
        want == Max(1, cfg.CandidateSplits)
    IN UNION {
         LET pruneSums == newLossSums(data, prune.samples, trues)
             reports ==
                 {<<x, LET quality == featureSplitQuality(cfg, data, prune.samples, trues,
                                                          pruneSums, f[x], prune.frac)
                       IN IF RLess(RInt(0), quality) /\ Len(prune.samples) # Len(falses)
                          THEN featureSplitQuality(cfg, data, falses, trues, sums,
                                                   f[x], RInt(1))
                          ELSE quality>> : x \in 1..Len(f)}
             stops == {j \in 0..Len(f) :
                         /\ j > 0 => Successes(reports, j - 1) <= want + cfg.GOMAXPROCS - 2
                         /\ Successes(reports, j) >= want \/ j = Len(f)}
         IN UNION {
              LET ok == {r \in reports : r[1] <= j /\ RLess(RInt(0), r[2])}
                  best == {r \in ok : \A y \in ok : ~RLess(r[2], y[2])}
              IN IF ok = {} THEN {<<>>}
                 ELSE IF cfg.GOMAXPROCS = 1
                      THEN {<<f[r[1]]>> : r \in {x \in best : \A y \in best : x[1] <= y[1]}}
                      ELSE {<<f[r[1]]>> : r \in best}
              : j \in stops}
         : prune \in subsampleLimit(falses, cfg.CandidatePruneSamples)}

(***************************************************************************)
(* Builder: Build, build, buildUnion, buildSubtree.  The recursion is a    *)
(* stack of pending calls; emitted nodes are kept by their path from the   *)
(* root (0 = FalseBranch, 1 = TrueBranch).                                 *)
(***************************************************************************)
BSeqLen == 3                \* timesteps of the training sequence
BMaxDepth == 2              \* largest Builder.Depth
BNumFeatures == {0, 1}      \* bitmap lengths drawn
BMinSplitSamples == {0, 1, 2}
BMaxUnion == {0, 1, 2}
BHorizons == <<0, 1>>
\* MaxSplitSamples, CandidatePruneSamples, CandidateSplits, GOMAXPROCS.
BSampling == {<<0, 0, 0, 1>>, <<2, 0, 0, 1>>, <<2, 2, 2, 2>>}

\* Mutation: the depth is not tested.
BuildIsLeafSamplesOnly(cfg, depth, n) == n <= cfg.MinSplitSamples

\* The test of build that makes the node a leaf.
BuildIsLeaf(cfg, depth, n) == depth = 0 \/ n <= cfg.MinSplitSamples

\* Mutation: the union is closed one feature late.
BuildUnionFullLate(cfg, unionLen) == unionLen > 0 /\ unionLen > cfg.MaxUnion

\* The test of buildUnion that stops growing the union.
BuildUnionFull(cfg, unionLen) == unionLen > 0 /\ unionLen >= cfg.MaxUnion

computeOutputDelta(data, samples) ==
    LET sum == VectorSum(data, samples, 1..Len(samples))
    IN VectorScale(sum, Rat(1, Len(samples)))

Frame(op, path, union, falses, trues, depth, next, addLeft, sampled) ==
    [op |-> op, path |-> path, union |-> union, falses |-> falses, trues |-> trues,
     depth |-> depth, next |-> next, addLeft |-> addLeft, sampled |-> sampled]

\* The tree rooted at path p, from the emitted nodes.
RECURSIVE BTreeAt(_, _)
BTreeAt(nodes, p) ==
    IF nodes[p].kind = "leaf" THEN LeafTree(nodes[p].OutputDelta, nodes[p].Feature)
    ELSE BranchTree(nodes[p].Feature, BTreeAt(nodes, Append(p, 0)),
                    BTreeAt(nodes, Append(p, 1)))

FalseSibling(p) == [p EXCEPT ![Len(p)] = 0]

InitBuildOf(lens, heuristics) ==
    /\ \E len \in lens, n \in BNumFeatures :
       \E bits \in [1..len -> SUBSET (0..(n - 1))], g \in [1..len -> {-1, 1}] :
          bdata = [Sequence |-> [p \in 1..len |->
                                   Timestep(BitmapFromSet(n, bits[p]), <<0>>, <<0>>)],
                   Vector |-> [p \in 1..len |-> <<g[p]>>],
                   dim |-> 1,
                   samples |-> [p \in 1..len |-> p - 1]]
    /\ \E sm \in BSampling, min \in BMinSplitSamples, mu \in BMaxUnion, h \in heuristics :
       \E depth \in (IF sm[1] = 0 THEN 0..BMaxDepth ELSE {BMaxDepth}) :
          bcfg = [Heuristic |-> h, Depth |-> depth, MinSplitSamples |-> min, MaxUnion |-> mu,
                  MaxSplitSamples |-> sm[1], CandidatePruneSamples |-> sm[2],
                  CandidateSplits |-> sm[3], GOMAXPROCS |-> sm[4],
                  Horizons |-> BHorizons]
    /\ bstack = <<>>
    /\ btree = <<>>
    /\ blog = [pc |-> "start", calls |-> {}, steps |-> {}]
    /\ FnIdle /\ EvalIdle /\ AllIdle /\ LaterIdle

InitBuild == InitBuildOf(0..BSeqLen, {"GradientHeuristic"})

\* The two checks Builder.Build makes before anything else: "no data" and
\* "no heuristic was specified".
BuildPanics(cfg, samples) == Len(samples) = 0 \/ cfg.Heuristic = "nil"

\* Builder.Build.
Build ==
    /\ blog.pc = "start"
    /\ IF BuildPanics(bcfg, bdata.samples)
       THEN /\ blog' = [blog EXCEPT !.pc = "panic"]
            /\ bstack' = bstack
       ELSE /\ blog' = [blog EXCEPT !.pc = "run"]
            /\ bstack' = <<Frame("build", <<>>, <<>>, bdata.samples, <<>>, bcfg.Depth,
                                 bdata.Sequence[bdata.samples[1] + 1].Features.numBits,
                                 FALSE, FALSE)>>
    /\ UNCHANGED <<bcfg, bdata, btree, fnVars, evalVars, allVars, laterVars>>

\* Builder.build: a leaf, or the start of a union.
build ==
    /\ blog.pc = "run" /\ bstack # <<>> /\ Head(bstack).op = "build"
    /\ LET fr == Head(bstack)
           nextNewFeature ==
               fr.next + (IF fr.addLeft
                          THEN TreeNumFeatures(BTreeAt(btree, FalseSibling(fr.path)))
                          ELSE 0)
           leaf == BuildIsLeaf(bcfg, fr.depth, Len(fr.falses))
       IN /\ IF leaf
             THEN /\ btree' = (fr.path :> [kind |-> "leaf",
                                           OutputDelta |-> computeOutputDelta(bdata, fr.falses),
                                           Feature |-> nextNewFeature,
                                           samples |-> fr.falses]) @@ btree
                  /\ bstack' = Tail(bstack)
             ELSE /\ btree' = btree
                  /\ bstack' = <<[fr EXCEPT !.op = "buildUnion", !.next = nextNewFeature,
                                            !.addLeft = FALSE]>> \o Tail(bstack)
          /\ blog' = [blog EXCEPT
                        !.pc = IF bstack' = <<>> THEN "done" ELSE "run",
                        !.calls = @ \cup {[path |-> fr.path, depth |-> fr.depth,
                                           len |-> Len(fr.falses), leaf |-> leaf]}]
    /\ UNCHANGED <<bcfg, bdata, fnVars, evalVars, allVars, laterVars>>

\* Mutation: the branch keeps the first feature of the union only.
BranchUnionFirstOnly(union) == <<union[1]>>

\* The union buildSubtree stores in the branch it returns.
BranchUnion(union) == union

\* Builder.buildSubtree for the call fr of buildUnion.
buildSubtree(fr) ==
    IF Len(fr.union) = 0
    THEN /\ bstack' = <<Frame("build", fr.path, <<>>, fr.falses, <<>>, 0, fr.next,
                              FALSE, FALSE)>> \o Tail(bstack)
         /\ btree' = btree
    ELSE /\ bstack' = <<Frame("build", Append(fr.path, 0), <<>>, fr.falses, <<>>,
                              fr.depth - 1, fr.next, FALSE, FALSE),
                        Frame("build", Append(fr.path, 1), <<>>, fr.trues, <<>>,
                              fr.depth - 1, fr.next, TRUE, FALSE)>> \o Tail(bstack)
         /\ btree' = (fr.path :> [kind |-> "branch", Feature |-> BranchUnion(fr.union),
                                  falses |-> fr.falses, trues |-> fr.trues,
                                  sampled |-> fr.sampled]) @@ btree

\* The test of buildUnion that moves a sample from falses to trues.
MovesToTrues(data, x, feature) == BranchFeature(LossSample(data, x), feature)

\* Builder.buildUnion: one step of growing the union.
buildUnion ==
    /\ blog.pc = "run" /\ bstack # <<>> /\ Head(bstack).op = "buildUnion"
    /\ LET fr == Head(bstack)
           full == BuildUnionFull(bcfg, Len(fr.union))
       IN /\ blog' = [blog EXCEPT !.steps = @ \cup {[path |-> fr.path, depth |-> fr.depth,
                                                     unionLen |-> Len(fr.union),
                                                     full |-> full]}]
          /\ IF full THEN buildSubtree(fr)
             ELSE
               \E sub \in subsampleLimit(fr.falses, bcfg.MaxSplitSamples) :
               \E features \in sortFeatures(bcfg, bdata, sub.samples, fr.trues, sub.frac) :
               \E best \in (IF Len(sub.samples) = Len(fr.falses)
                            THEN {IF Len(features) > 0 THEN <<features[1]>> ELSE <<>>}
                            ELSE optimalFeature(bcfg, bdata, fr.falses, fr.trues, features)) :
                  IF best = <<>> THEN buildSubtree(fr)
                  ELSE
                    LET Tests(x) == MovesToTrues(bdata, x, best[1])
                        Fails(x) == ~Tests(x)
                    IN /\ bstack' = <<[fr EXCEPT
                                         !.union = Append(@, best[1]),
                                         !.falses = SelectSeq(fr.falses, Fails),
                                         !.trues = @ \o SelectSeq(fr.falses, Tests),
                                         !.sampled = @ \/ Len(sub.samples) # Len(fr.falses)]>>
                                      \o Tail(bstack)
                       /\ btree' = btree
    /\ UNCHANGED <<bcfg, bdata, fnVars, evalVars, allVars, laterVars>>

NextBuild == Build \/ build \/ buildUnion

SpecBuild == InitBuild /\ [][NextBuild]_vars

(***************************************************************************)
(* Properties of the built tree.                                           *)
(***************************************************************************)
BuildReturned == blog.pc = "done"

BuiltTree == BTreeAt(btree, <<>>)

BuildBaseFeatures == bdata.Sequence[bdata.samples[1] + 1].Features.numBits

BranchPaths == {p \in DOMAIN btree : btree[p].kind = "branch"}

\* The training samples that the emitted branches route to the node at p.
RoutedTo(p) ==
    {x \in 0..(Len(bdata.samples) - 1) :
        \A k \in 1..Len(p) :
           UnionTest(LossSample(bdata, x), btree[SubSeq(p, 1, k - 1)].Feature)
              = (p[k] = 1)}

RoutedTrue(p) ==
    {x \in RoutedTo(p) : UnionTest(LossSample(bdata, x), btree[p].Feature)}

\* C3: the leaves of the tree returned by Build carry the ids n, n+1, ...,
\* n+L-1 in depth-first order, false subtree first, n being the bitmap length.
C3_LeafIdsConsecutive ==
    BuildReturned =>
       LET leaves == TreeLeaves(BuiltTree)
       IN \A j \in 1..Len(leaves) : leaves[j].Feature = BuildBaseFeatures + j - 1

\* The same for bitmaps of at least one bit.
C3_LeafIdsConsecutivePositive ==
    (BuildReturned /\ BuildBaseFeatures >= 1) =>
       LET leaves == TreeLeaves(BuiltTree)
       IN \A j \in 1..Len(leaves) : leaves[j].Feature = BuildBaseFeatures + j - 1

\* The first id of a true subtree is the first id of its false sibling plus
\* the sibling's NumFeatures().
C3_RightStartsAfterLeft ==
    BuildReturned =>
       \A p \in BranchPaths :
          TreeLeaves(BTreeAt(btree, Append(p, 1)))[1].Feature
             = TreeLeaves(BTreeAt(btree, Append(p, 0)))[1].Feature
                  + TreeNumFeatures(BTreeAt(btree, Append(p, 0)))

\* C8: every emitted branch sends at least max(1, MinSplitSamples) of the
\* training samples that reach it to its false child and as many to its true
\* child.
C8_MinSplitSamples ==
    \A p \in BranchPaths :
       /\ Cardinality(RoutedTrue(p)) >= Max(1, bcfg.MinSplitSamples)
       /\ Cardinality(RoutedTo(p) \ RoutedTrue(p)) >= Max(1, bcfg.MinSplitSamples)

\* A returned tree, MinSplitSamples >= 1, with a branch whose union grew over
\* two steps ranked on a subsample and pruned on a subsample.
C8_Witness ==
    /\ BuildReturned
    /\ bcfg.MinSplitSamples >= 1
    /\ bcfg.CandidatePruneSamples > 0
    /\ \E p \in BranchPaths : btree[p].sampled /\ Len(btree[p].Feature) >= 2

\* C9: every emitted branch carries a union of at least one and at most
\* max(1, MaxUnion) features, and with MaxUnion = 0 every decision of
\* buildUnion to stop growing is the one taken with MaxUnion = 1.
C9_UnionSize ==
    /\ \A p \in BranchPaths :
          /\ Len(btree[p].Feature) >= 1
          /\ Len(btree[p].Feature) <= Max(1, bcfg.MaxUnion)
    /\ bcfg.MaxUnion = 0 =>
          \A st \in blog.steps : st.full = (st.unionLen > 0 /\ st.unionLen >= 1)

\* A returned tree with MaxUnion = 2 and a branch whose union has two features.
C9_Witness ==
    /\ BuildReturned
    /\ bcfg.MaxUnion = 2
    /\ \E p \in BranchPaths : Len(btree[p].Feature) = 2

\* A returned tree with MaxUnion = 0 and a branch.
C9_WitnessZero ==
    BuildReturned /\ bcfg.MaxUnion = 0 /\ BranchPaths # {}

\* C10: a call of build with depth 0 or at most MinSplitSamples samples
\* returns a leaf and makes no step of buildUnion; no node lies below more
\* than Depth branches, and the returned tree has at most 2^Depth leaves.
C10_LeafAtDepthOrFewSamples ==
    /\ \A c \in blog.calls :
          (c.depth = 0 \/ c.len <= bcfg.MinSplitSamples) =>
             /\ c.leaf
             /\ ~ \E st \in blog.steps : st.path = c.path /\ st.depth = c.depth
    /\ \A p \in DOMAIN btree : Len(p) <= bcfg.Depth
    /\ BuildReturned => Len(TreeLeaves(BuiltTree)) <= Pow2(bcfg.Depth)

\* A returned tree with 2^Depth leaves, Depth >= 1, one of them made a leaf
\* at depth 0 although it holds more than MinSplitSamples samples.
C10_Witness ==
    /\ BuildReturned
    /\ bcfg.Depth >= 1
    /\ Len(TreeLeaves(BuiltTree)) = Pow2(bcfg.Depth)
    /\ \E c \in blog.calls :
          c.depth = 0 /\ c.len > bcfg.MinSplitSamples /\ Len(c.path) = bcfg.Depth

(***************************************************************************)
(* Pruner.  Leaves are told apart by an id (the pointer identity of the    *)
(* code); samples are indices into pr.data.Sequence and carry the vector   *)
(* <<1, gradient>> of GradientHeuristic.SampleVector.                      *)
(***************************************************************************)
PLeaf(id, delta) ==
    [kind |-> "leaf", OutputDelta |-> delta, id |-> id]

IsLeafId(t, l) == t.kind = "leaf" /\ t.id = l

\* pruneLeaf panics when asked to prune the root.
pruneLeafPanics(t, l) == IsLeafId(t, l)

\* Mutation: the branch above the leaf is replaced by the leaf itself.
RECURSIVE pruneLeafKeepsLeaf(_, _)
pruneLeafKeepsLeaf(t, l) ==
    IF t.kind = "leaf" THEN t
    ELSE IF IsLeafId(t.FalseBranch, l) THEN t.FalseBranch
    ELSE IF IsLeafId(t.TrueBranch, l) THEN t.TrueBranch
    ELSE BranchTree(t.Feature, pruneLeafKeepsLeaf(t.FalseBranch, l),
                    pruneLeafKeepsLeaf(t.TrueBranch, l))

RECURSIVE pruneLeaf(_, _)
pruneLeaf(t, l) ==
    IF t.kind = "leaf" THEN t
    ELSE IF IsLeafId(t.FalseBranch, l) THEN t.TrueBranch
    ELSE IF IsLeafId(t.TrueBranch, l) THEN t.FalseBranch
    ELSE BranchTree(t.Feature, pruneLeaf(t.FalseBranch, l), pruneLeaf(t.TrueBranch, l))

\* GradientHeuristic.SampleVector with the gradient data.Grad of the sample.
SampleVector(data, x) == <<RInt(1), RInt(data.Grad[x + 1])>>

RECURSIVE SampleVectorSum(_, _)
SampleVectorSum(data, S) ==
    IF S = {} THEN <<>>
    ELSE LET x == CHOOSE y \in S : TRUE
         IN IF S = {x} THEN SampleVector(data, x)
            ELSE VectorAdd(SampleVectorSum(data, S \ {x}), SampleVector(data, x))

\* GradientHeuristic.Quality and LeafOutput.
GradientQuality(gradSum) ==
    IF gradSum[1] = RInt(0) THEN RInt(0)
    ELSE RDiv(vectorNormSquared(Tail(gradSum)), gradSum[1])

GradientLeafOutput(gradSum) ==
    VectorScale(Tail(gradSum), RDiv(RInt(-1), gradSum[1]))

\* The samples of S that t routes to the leaf with id l.
RoutedToLeaf(data, S, t, l) ==
    {x \in S : TreeEvaluate(t, LossSample(data, x)).id = l}

\* Pruner.leafSums: one sum per leaf that some sample reaches.
leafSums(data, S, t) ==
    LET reached == {TreeEvaluate(t, LossSample(data, x)).id : x \in S}
    IN [l \in reached |-> SampleVectorSum(data, RoutedToLeaf(data, S, t, l))]

RECURSIVE RationalSum(_, _)
RationalSum(f, D) ==
    IF D = {} THEN RInt(0)
    ELSE LET d == CHOOSE y \in D : TRUE IN RAdd(f[d], RationalSum(f, D \ {d}))

\* Pruner.treeQuality.
treeQuality(data, S, t) ==
    LET sums == leafSums(data, S, t)
    IN RationalSum([l \in DOMAIN sums |-> GradientQuality(sums[l])], DOMAIN sums)

\* Pruner.recomputeOutputDeltas on the copy of t.
RECURSIVE SetOutputDeltas(_, _)
SetOutputDeltas(t, sums) ==
    IF t.kind = "leaf"
    THEN (IF t.id \in DOMAIN sums
          THEN [t EXCEPT !.OutputDelta = GradientLeafOutput(sums[t.id])] ELSE t)
    ELSE BranchTree(t.Feature, SetOutputDeltas(t.FalseBranch, sums),
                    SetOutputDeltas(t.TrueBranch, sums))

recomputeOutputDeltas(data, S, t) == SetOutputDeltas(t, leafSums(data, S, t))

\* Tree.Copy: a deep copy, whose leaves are new objects start, start + 1,
\* ... in depth-first order.
RECURSIVE Copy(_, _)
Copy(t, start) ==
    IF t.kind = "leaf" THEN [t EXCEPT !.id = start]
    ELSE BranchTree(t.Feature, Copy(t.FalseBranch, start),
                    Copy(t.TrueBranch, start + Len(TreeLeaves(t.FalseBranch))))

\* Mutation: the deltas are recomputed on the pruned tree itself.
PruneResultShared(result, start) == result

\* result = result.Copy(), the tree whose deltas Prune recomputes.
PruneResultCopy(result, start) == Copy(result, start)

\* The tree t as seen after the leaves of w were assigned: a leaf object of
\* t that is also a leaf of w has the delta it has in w.
RECURSIVE WriteThrough(_, _)
WriteThrough(t, w) ==
    IF t.kind = "leaf"
    THEN (IF \E j \in 1..Len(TreeLeaves(w)) : TreeLeaves(w)[j].id = t.id
          THEN [t EXCEPT !.OutputDelta =
                   TreeLeaves(w)[CHOOSE j \in 1..Len(TreeLeaves(w)) :
                                    TreeLeaves(w)[j].id = t.id].OutputDelta]
          ELSE t)
    ELSE BranchTree(t.Feature, WriteThrough(t.FalseBranch, w),
                    WriteThrough(t.TrueBranch, w))

\* Pruner.baseBranches: the branches whose two children are leaves, as
\* pairs <<false leaf id, true leaf id>>, false subtree first.
RECURSIVE baseBranches(_)
baseBranches(t) ==
    IF t.kind = "leaf" THEN <<>>
    ELSE IF t.FalseBranch.kind = "leaf" /\ t.TrueBranch.kind = "leaf"
    THEN <<<<t.FalseBranch.id, t.TrueBranch.id>>>>
    ELSE baseBranches(t.FalseBranch) \o baseBranches(t.TrueBranch)

\* The in-place collapse of the base branch b into the leaf nl.
RECURSIVE CollapseBase(_, _, _)
CollapseBase(t, b, nl) ==
    IF t.kind = "leaf" THEN t
    ELSE IF IsLeafId(t.FalseBranch, b[1]) /\ IsLeafId(t.TrueBranch, b[2]) THEN nl
    ELSE BranchTree(t.Feature, CollapseBase(t.FalseBranch, b, nl),
                    CollapseBase(t.TrueBranch, b, nl))

PMaxLeaves == 3     \* pruning: leaves of the largest input tree, largest MaxLeaves
PTimesteps == 1..2  \* pruning: positions of the sequence the samples point into
PProcs == {2}       \* pruning: values of GOMAXPROCS in bestPrune

PFeatures == {BranchFeatureRec(0, 0), BranchFeatureRec(-1, 1)}

\* The tree shapes with n leaves, single-feature unions drawn from PFeatures.
RECURSIVE PShapes(_)
PShapes(n) ==
    IF n = 1 THEN {PLeaf(0, <<RInt(0)>>)}
    ELSE UNION {{BranchTree(<<f>>, a, b) : a \in PShapes(k), b \in PShapes(n - k)} :
                  k \in 1..(n - 1), f \in PFeatures}

\* Leaf ids start, start+1, ... in depth-first order; leaf id outputs <<id>>.
RECURSIVE PNumbered(_, _)
PNumbered(t, start) ==
    IF t.kind = "leaf" THEN PLeaf(start, <<RInt(start)>>)
    ELSE BranchTree(t.Feature, PNumbered(t.FalseBranch, start),
                    PNumbered(t.TrueBranch, start + Len(TreeLeaves(t.FalseBranch))))

PVersions == {"prune.go:19", "part_007:23"}

InitPruneOf(versions, limits) ==
    /\ \E version \in versions, n \in 1..PMaxLeaves, maxLeaves \in limits,
          procs \in PProcs :
       \E shape \in PShapes(n), bits \in [PTimesteps -> SUBSET {0}],
          g \in [PTimesteps -> {-1, 1}], S \in SUBSET {p - 1 : p \in PTimesteps} :
          /\ version # "part_007:23" => procs = CHOOSE x \in PProcs : TRUE
          /\ pr = [pc |-> "call", version |-> version, MaxLeaves |-> maxLeaves,
                   GOMAXPROCS |-> procs,
                   data |-> [Sequence |-> [p \in PTimesteps |->
                                             Timestep(BitmapFromSet(1, bits[p]), <<0>>, <<0>>)],
                             Grad |-> g],
                   samples |-> S,
                   t |-> PNumbered(shape, 1), t0 |-> PNumbered(shape, 1),
                   result |-> PNumbered(shape, 1),
                   sums |-> <<>>, nextId |-> n + 1, removed |-> 0, workers |-> 0,
                   last |-> <<>>, pruned |-> <<>>]
    /\ sc = [pc |-> "idle"] /\ of = [pc |-> "idle"] /\ sf = [pc |-> "idle"] /\ StepIdle
    /\ FnIdle /\ EvalIdle /\ AllIdle /\ BuildIdle

\* Mutation: only a negative MaxLeaves is refused.
PrunePanicsNegativeOnly(maxLeaves) == maxLeaves < 0

\* The check Prune makes before anything else: "cannot restrict to fewer
\* than 1 leaves".
PrunePanics(maxLeaves) == maxLeaves < 1

\* Pruner.Prune up to its loop: the MaxLeaves check, newVecSamples and, in
\* the in-place version, leafSums.
PruneCall ==
    /\ pr.pc = "call"
    /\ IF PrunePanics(pr.MaxLeaves)
       THEN pr' = [pr EXCEPT !.pc = "panic"]
       ELSE pr' = [pr EXCEPT !.pc = "loop",
                             !.sums = IF pr.version = "prune.go:116"
                                      THEN leafSums(pr.data, pr.samples, pr.t) ELSE <<>>]
    /\ UNCHANGED <<sc, of, sf, fnVars, evalVars, allVars, buildVars, stp>>

\* Mutation: the loop runs once more.
PruneStopsOneLate(n, maxLeaves) == n < maxLeaves

\* The loop test of Prune on the number of leaves (or of sums).
PruneStops(n, maxLeaves) == n <= maxLeaves

\* The candidates of one iteration: <<position of the leaf, pruned tree,
\* quality>>.
PruneCandidates ==
    LET leaves == TreeLeaves(pr.result)
    IN {LET t1 == pruneLeaf(pr.result, leaves[j].id)
        IN <<j, t1, treeQuality(pr.data, pr.samples, t1)>> : j \in 1..Len(leaves)}

\* One iteration of the loop of Prune (prune.go:19) or one call of bestPrune
\* (part_007): the candidate of greatest quality replaces the result; among
\* equals the first leaf wins in the sequential loop, the first to take the
\* lock in bestPrune.
PruneIter ==
    /\ pr.pc = "loop" /\ pr.version # "prune.go:116"
    /\ ~PruneStops(Len(TreeLeaves(pr.result)), pr.MaxLeaves)
    /\ LET leaves == TreeLeaves(pr.result)
           procs == IF pr.version = "part_007:23"
                    THEN (IF pr.GOMAXPROCS < Len(leaves) THEN pr.GOMAXPROCS ELSE Len(leaves))
                    ELSE 0
           concurrent == procs > 1
       IN IF \E j \in 1..Len(leaves) : pruneLeafPanics(pr.result, leaves[j].id)
          THEN pr' = [pr EXCEPT !.pc = "panic", !.workers = @ + procs]
          ELSE LET cands == PruneCandidates
                   best == {c \in cands : \A d \in cands : ~RLess(c[3], d[3])}
                   first == {c \in best : \A d \in best : c[1] <= d[1]}
               IN \E c \in (IF concurrent THEN best ELSE first) :
                     pr' = [pr EXCEPT !.result = c[2], !.removed = @ + 1,
                                      !.workers = @ + procs,
                                      !.last = <<pr.result, leaves[c[1]].id>>]
    /\ UNCHANGED <<sc, of, sf, fnVars, evalVars, allVars, buildVars, stp>>

\* The end of Prune (prune.go:19, part_007): a pruned result is copied and
\* its output deltas are recomputed.
PruneReturn ==
    /\ pr.pc = "loop" /\ pr.version # "prune.go:116"
    /\ PruneStops(Len(TreeLeaves(pr.result)), pr.MaxLeaves)
    /\ IF pr.removed > 0
       THEN LET copy == PruneResultCopy(pr.result, pr.nextId)
                refit == recomputeOutputDeltas(pr.data, pr.samples, copy)
            IN pr' = [pr EXCEPT !.pc = "done", !.result = refit,
                                !.t = WriteThrough(pr.t, refit),
                                !.pruned = pr.result,
                                !.nextId = @ + Len(TreeLeaves(copy))]
       ELSE pr' = [pr EXCEPT !.pc = "done"]
    /\ UNCHANGED <<sc, of, sf, fnVars, evalVars, allVars, buildVars, stp>>

\* Score of merging the base branch b: Quality(sum1) + Quality(sum2) -
\* Quality(sum1 + sum2).
MergeScore(sums, b) ==
    RSub(RAdd(GradientQuality(sums[b[1]]), GradientQuality(sums[b[2]])),
         GradientQuality(VectorAdd(sums[b[1]], sums[b[2]])))

\* One iteration of the loop of the in-place Prune (prune.go:116): the base
\* branch of lowest score, the first among equals, becomes a leaf.  Reading
\* the sum of a leaf no sample reaches dereferences nil.
PruneInPlaceIter ==
    /\ pr.pc = "loop" /\ pr.version = "prune.go:116"
    /\ ~PruneStops(Cardinality(DOMAIN pr.sums), pr.MaxLeaves)
    /\ LET bases == baseBranches(pr.t)
       IN IF bases = <<>> \/ \E j \in 1..Len(bases) :
                                bases[j][1] \notin DOMAIN pr.sums
                                   \/ bases[j][2] \notin DOMAIN pr.sums
          THEN pr' = [pr EXCEPT !.pc = "panic"]
          ELSE LET lowest == CHOOSE j \in 1..Len(bases) :
                                \A k \in 1..Len(bases) :
                                   /\ ~RLess(MergeScore(pr.sums, bases[k]),
                                             MergeScore(pr.sums, bases[j]))
                                   /\ k < j => RLess(MergeScore(pr.sums, bases[j]),
                                                     MergeScore(pr.sums, bases[k]))
                   b == bases[lowest]
                   newSum == VectorAdd(pr.sums[b[1]], pr.sums[b[2]])
                   t1 == CollapseBase(pr.t, b, PLeaf(pr.nextId, GradientLeafOutput(newSum)))
               IN pr' = [pr EXCEPT
                           !.t = t1, !.result = t1, !.removed = @ + 1,
                           !.nextId = @ + 1,
                           !.sums = [l \in (DOMAIN pr.sums \ {b[1], b[2]}) \cup {pr.nextId}
                                       |-> IF l = pr.nextId THEN newSum ELSE pr.sums[l]]]
    /\ UNCHANGED <<sc, of, sf, fnVars, evalVars, allVars, buildVars, stp>>

PruneInPlaceReturn ==
    /\ pr.pc = "loop" /\ pr.version = "prune.go:116"
    /\ PruneStops(Cardinality(DOMAIN pr.sums), pr.MaxLeaves)
    /\ pr' = [pr EXCEPT !.pc = "done"]
    /\ UNCHANGED <<sc, of, sf, fnVars, evalVars, allVars, buildVars, stp>>

InitPrune == InitPruneOf(PVersions, 0..PMaxLeaves)

NextPrune == PruneCall \/ PruneIter \/ PruneReturn

SpecPrune == InitPrune /\ [][NextPrune]_vars

InitPruneInPlace == InitPruneOf({"prune.go:116"}, 0..PMaxLeaves)

NextPruneInPlace == PruneCall \/ PruneInPlaceIter \/ PruneInPlaceReturn

SpecPruneInPlace == InitPruneInPlace /\ [][NextPruneInPlace]_vars

(***************************************************************************)
(* Properties of Prune.                                                    *)
(***************************************************************************)
PLeafCount(t) == Len(TreeLeaves(t))

PMin(a, b) == IF a < b THEN a ELSE b

\* C11: for MaxLeaves >= 1 Prune does not abort and the tree it yields has
\* min(MaxLeaves, leaves of the input) leaves, one leaf having been removed
\* per iteration.
C11_PruneToMaxLeaves ==
    /\ pr.pc = "panic" => pr.MaxLeaves < 1
    /\ pr.pc = "done" =>
          /\ PLeafCount(pr.result) = PMin(pr.MaxLeaves, PLeafCount(pr.t0))
          /\ pr.removed = PLeafCount(pr.t0) - PLeafCount(pr.result)

\* The iterations never outnumber the leaves of the input: the loop ends.
C11_IterationsBounded ==
    pr.pc # "idle" => pr.removed < PLeafCount(pr.t0)

\* A leaf's output delta is LeafOutput of the sum of the vectors of the
\* samples routed to it.  The sum over no sample has count 0, for which
\* LeafOutput is 0 * (-1/0), a NaN, equal to no delta.
LeafIsRefit(data, S, t, leaf) ==
    LET routed == RoutedToLeaf(data, S, t, leaf.id)
    IN /\ routed # {}
       /\ leaf.OutputDelta = GradientLeafOutput(SampleVectorSum(data, routed))

\* C12: when Prune removed a leaf, every leaf of the returned tree has the
\* output delta LeafOutput gives for the samples the tree routes to it.
C12_LeavesRefit ==
    (pr.pc = "done" /\ pr.removed > 0) =>
       \A j \in 1..PLeafCount(pr.result) :
          LeafIsRefit(pr.data, pr.samples, pr.result, TreeLeaves(pr.result)[j])

\* The leaf of t with id l.
LeafById(t, l) ==
    LET leaves == TreeLeaves(t)
    IN leaves[CHOOSE j \in 1..Len(leaves) : leaves[j].id = l]

\* The same for the leaves some sample reaches; the others keep the delta
\* they had in the input tree.
C12_ReachedLeavesRefit ==
    (pr.pc = "done" /\ pr.removed > 0) =>
       \A j \in 1..PLeafCount(pr.result) :
          LET leaf == TreeLeaves(pr.result)[j]
          IN IF RoutedToLeaf(pr.data, pr.samples, pr.result, leaf.id) # {}
             THEN LeafIsRefit(pr.data, pr.samples, pr.result, leaf)
             ELSE LET old == TreeLeaves(pr.pruned)[j]
                  IN /\ leaf.OutputDelta = old.OutputDelta
                     /\ old = LeafById(pr.t0, old.id)

PAllSamples == {p - 1 : p \in PTimesteps}

\* C13: with MaxLeaves at least the number of leaves of the input, the tree
\* Prune returns routes every sample to a leaf with the output delta it had
\* in the input tree, and no leaf output is changed.
C13_PruneToSizeIsEquivalent ==
    (pr.pc = "done" /\ pr.MaxLeaves >= PLeafCount(pr.t0)) =>
       /\ \A x \in PAllSamples :
             TreeEvaluate(pr.result, LossSample(pr.data, x)).OutputDelta
                = TreeEvaluate(pr.t0, LossSample(pr.data, x)).OutputDelta
       /\ TreeLeaves(pr.result) = TreeLeaves(pr.t0)
       /\ pr.t = pr.t0

\* Prune has returned a tree of two or more leaves, MaxLeaves being exactly
\* its number of leaves, for a non-empty sample set.
C13_Witness ==
    /\ pr.pc = "done"
    /\ pr.MaxLeaves = PLeafCount(pr.t0)
    /\ PLeafCount(pr.t0) >= 2
    /\ pr.samples # {}

(***************************************************************************)
(* Failing fast: Build and Prune on inputs their first checks refuse,      *)
(* next to inputs they accept.                                             *)
(***************************************************************************)
FFLens == {0, 2}
FFHeuristics == {"nil", "GradientHeuristic"}
FFLimits == -1..1

InitFailFast ==
    \/ InitBuildOf(FFLens, FFHeuristics)
    \/ InitPruneOf(PVersions, FFLimits)

NextFailFast == NextBuild \/ NextPrune

SpecFailFast == InitFailFast /\ [][NextFailFast]_vars

\* C16: Build on no samples or without a heuristic, and Prune with
\* MaxLeaves < 1, abort in their first step: no call of build or buildUnion
\* (where the workers are started) is made, no tree is produced, bestPrune
\* starts no worker, and the tree handed to Prune is as it was.
C16_FailFast ==
    /\ (blog.pc # "idle" /\ BuildPanics(bcfg, bdata.samples)) =>
          /\ blog.pc \in {"start", "panic"}
          /\ bstack = <<>> /\ btree = <<>>
          /\ blog.calls = {} /\ blog.steps = {}
    /\ (pr.pc # "idle" /\ pr.MaxLeaves < 1) =>
          /\ pr.pc \in {"call", "panic"}
          /\ pr.workers = 0 /\ pr.removed = 0
          /\ pr.t = pr.t0 /\ pr.result = pr.t0

\* Prune has aborted on MaxLeaves < 1 for a tree of two or more leaves and a
\* non-empty sample set.
C16_Witness ==
    /\ pr.pc = "panic" /\ pr.MaxLeaves < 1
    /\ PLeafCount(pr.t0) >= 2 /\ pr.samples # {}

\* Build has aborted on an empty sample list although a heuristic was given.
C16_WitnessNoData ==
    blog.pc = "panic" /\ Len(bdata.samples) = 0 /\ bcfg.Heuristic # "nil"

\* Build has aborted for want of a heuristic although there were samples.
C16_WitnessNoHeuristic ==
    blog.pc = "panic" /\ Len(bdata.samples) > 0 /\ bcfg.Heuristic = "nil"

(***************************************************************************)
(* ScaleOptimalStep: a golden-section search per reached leaf.  Floats are *)
(* exact rationals and math.Phi is the convergent 13/8.                    *)
(***************************************************************************)
Phi == <<13, 8>>

\* A LossFunc: the absolute error, summed over the components.
RECURSIVE AbsLoss(_, _)
AbsLoss(output, target) ==
    IF output = <<>> THEN RInt(0)
    ELSE RAdd(RAbs(RSub(Head(output), Head(target))), AbsLoss(Tail(output), Tail(target)))

\* The closure ScaleOptimalStep hands to minimizeUnary: the loss of the
\* leaf's samples after a step of stepSize along the leaf's delta.
RECURSIVE LeafLoss(_, _, _, _)
LeafLoss(data, samples, delta, stepSize) ==
    IF samples = <<>> THEN RInt(0)
    ELSE LET sample == data.Sequence[Head(samples) + 1]
             tmpOutput == [k \in 1..Len(sample.Output) |->
                             RAdd(RInt(sample.Output[k]), RMul(stepSize, delta[k]))]
             target == [k \in 1..Len(sample.Target) |-> RInt(sample.Target[k])]
         IN RAdd(AbsLoss(tmpOutput, target),
                 LeafLoss(data, Tail(samples), delta, stepSize))

\* The loop of minimizeUnary on the closure above; midValue1 and midValue2
\* are <<>> for nil.
RECURSIVE minimizeUnaryLoop(_, _, _, _, _, _, _, _)
minimizeUnaryLoop(data, samples, delta, minX, maxX, midValue1, midValue2, iters) ==
    IF iters = 0 THEN RDiv(RAdd(minX, maxX), RInt(2))
    ELSE LET w == RDiv(RSub(maxX, minX), Phi)
             mid1 == RSub(maxX, w)
             mid2 == RAdd(minX, w)
             v1 == IF midValue1 = <<>> THEN LeafLoss(data, samples, delta, mid1)
                   ELSE midValue1[1]
             v2 == IF midValue2 = <<>> THEN LeafLoss(data, samples, delta, mid2)
                   ELSE midValue2[1]
         IN IF RLess(v2, v1)
            THEN minimizeUnaryLoop(data, samples, delta, mid1, maxX, <<v2>>, <<>>, iters - 1)
            ELSE minimizeUnaryLoop(data, samples, delta, minX, mid2, <<>>, <<v1>>, iters - 1)

minimizeUnary(data, samples, delta, minX, maxX, iters) ==
    minimizeUnaryLoop(data, samples, delta, minX, maxX, <<>>, <<>>, iters)

\* leafToSample: the samples reaching the leaf of id l, in list order.
RECURSIVE leafToSample(_, _, _, _)
leafToSample(data, samples, t, l) ==
    IF samples = <<>> THEN <<>>
    ELSE (IF TreeEvaluate(t, LossSample(data, Head(samples))).id = l
          THEN <<Head(samples)>> ELSE <<>>)
         \o leafToSample(data, Tail(samples), t, l)

\* Mutation: only an empty group is skipped.
ScaleSkipsEmptyOnly(n, minLeafSamples) == n = 0

\* The test that skips a leaf of ScaleOptimalStep.
ScaleSkips(n, minLeafSamples) == n < minLeafSamples \/ n = 0

\* leaf.OutputDelta[i] = x * scale in the leaf of id l.
RECURSIVE ScaleLeafDelta(_, _, _)
ScaleLeafDelta(t, l, scale) ==
    IF t.kind = "leaf"
    THEN (IF t.id = l THEN [t EXCEPT !.OutputDelta = VectorScale(t.OutputDelta, scale)]
          ELSE t)
    ELSE BranchTree(t.Feature, ScaleLeafDelta(t.FalseBranch, l, scale),
                    ScaleLeafDelta(t.TrueBranch, l, scale))

SMaxSamples == 3   \* ScaleOptimalStep: longest list of samples
SIters == 3        \* ScaleOptimalStep: iterations of each line search
SMaxSteps == {RInt(2)}
SMinLeafSamples == {0, 1, 2}
STimesteps == 1..2

SSampleLists == UNION {[1..n -> {p - 1 : p \in STimesteps}] : n \in 0..SMaxSamples}

InitScale ==
    /\ \E n \in 1..3, samples \in SSampleLists, maxStep \in SMaxSteps,
          minLeafSamples \in SMinLeafSamples :
       \E shape \in PShapes(n), bits \in [STimesteps -> SUBSET {0}],
          out \in [STimesteps -> {-1, 1}] :
          LET data == [Sequence |-> [p \in STimesteps |->
                          Timestep(BitmapFromSet(1, bits[p]), <<out[p]>>, <<0>>)]]
          IN sc = [pc |-> "call", data |-> data, data0 |-> data, samples |-> samples,
                   maxStep |-> maxStep, minLeafSamples |-> minLeafSamples,
                   iters |-> SIters,
                   t |-> PNumbered(shape, 1), t0 |-> PNumbered(shape, 1),
                   pending |-> {}, scaled |-> {}]
    /\ pr = [pc |-> "idle"] /\ of = [pc |-> "idle"] /\ sf = [pc |-> "idle"] /\ StepIdle
    /\ FnIdle /\ EvalIdle /\ AllIdle /\ BuildIdle

\* ScaleOptimalStep up to its second loop: the map leafToSample is filled.
ScaleCall ==
    /\ sc.pc = "call"
    /\ sc' = [sc EXCEPT !.pc = "loop",
                        !.pending = {TreeEvaluate(sc.t, LossSample(sc.data, sc.samples[j])).id :
                                        j \in 1..Len(sc.samples)}]
    /\ UNCHANGED <<pr, of, sf, fnVars, evalVars, allVars, buildVars, stp>>

\* One iteration of the loop over leafToSample, whose order the map does
\* not fix: the leaf is skipped or its delta is scaled by the result of its
\* line search.
ScaleLeaf ==
    /\ sc.pc = "loop"
    /\ \E l \in sc.pending :
          LET samples == leafToSample(sc.data, sc.samples, sc.t, l)
              leaf == LeafById(sc.t, l)
          IN IF ScaleSkips(Len(samples), sc.minLeafSamples)
             THEN sc' = [sc EXCEPT !.pending = @ \ {l}]
             ELSE LET scale == minimizeUnary(sc.data, samples, leaf.OutputDelta,
                                             RInt(0), sc.maxStep, sc.iters)
                  IN sc' = [sc EXCEPT !.pending = @ \ {l},
                                      !.scaled = @ \cup {l},
                                      !.t = ScaleLeafDelta(sc.t, l, scale)]
    /\ UNCHANGED <<pr, of, sf, fnVars, evalVars, allVars, buildVars, stp>>

\* The loop is over: ScaleOptimalStep returns.
ScaleReturn ==
    /\ sc.pc = "loop" /\ sc.pending = {}
    /\ sc' = [sc EXCEPT !.pc = "done"]
    /\ UNCHANGED <<pr, of, sf, fnVars, evalVars, allVars, buildVars, stp>>

NextScale == ScaleCall \/ ScaleLeaf \/ ScaleReturn

SpecScale == InitScale /\ [][NextScale]_vars

\* The tree without its output deltas.
RECURSIVE TreeStructure(_)
TreeStructure(t) ==
    IF t.kind = "leaf" THEN [kind |-> "leaf", id |-> t.id]
    ELSE [kind |-> "branch", Feature |-> t.Feature,
          FalseBranch |-> TreeStructure(t.FalseBranch),
          TrueBranch |-> TreeStructure(t.TrueBranch)]

\* The factor of the leaf of id l of the input tree, from that leaf's delta
\* and the samples of the input list that reach it, and from nothing else.
OwnFactor(l) ==
    minimizeUnary(sc.data0, leafToSample(sc.data0, sc.samples, sc.t0, l),
                  LeafById(sc.t0, l).OutputDelta, RInt(0), sc.maxStep, sc.iters)

\* C14: when ScaleOptimalStep returns, a leaf reached by at least
\* max(1, minLeafSamples) samples has its delta multiplied by its own
\* factor, which lies in [0, maxStep]; every other leaf has the delta it
\* had; the structure of the tree and the timesteps are as they were.
C14_ScalesReachedLeavesOnly ==
    sc.pc = "done" =>
       /\ TreeStructure(sc.t) = TreeStructure(sc.t0)
       /\ sc.data = sc.data0
       /\ \A j \in 1..Len(TreeLeaves(sc.t0)) :
             LET old == TreeLeaves(sc.t0)[j]
                 new == TreeLeaves(sc.t)[j]
                 n == Len(leafToSample(sc.data0, sc.samples, sc.t0, old.id))
             IN IF n >= Max(1, sc.minLeafSamples)
                THEN /\ new.OutputDelta = VectorScale(old.OutputDelta, OwnFactor(old.id))
                     /\ ~RLess(OwnFactor(old.id), RInt(0))
                     /\ ~RLess(sc.maxStep, OwnFactor(old.id))
                ELSE new.OutputDelta = old.OutputDelta

\* ScaleOptimalStep has returned after scaling one leaf and skipping another
\* that fewer than minLeafSamples samples reach, a third leaf being reached
\* by no sample.
C14_Witness ==
    /\ sc.pc = "done"
    /\ Len(TreeLeaves(sc.t0)) = 3
    /\ \E a, b \in {TreeLeaves(sc.t0)[j].id : j \in 1..3} :
          /\ a \in sc.scaled
          /\ LeafById(sc.t, a).OutputDelta # LeafById(sc.t0, a).OutputDelta
          /\ b \notin sc.scaled
          /\ leafToSample(sc.data0, sc.samples, sc.t0, b) # <<>>

(***************************************************************************)
(* Properties of two calls of Evaluate on one sequence.                    *)
(***************************************************************************)
\* C15: after two calls of Evaluate on a fresh sequence every output is
\* twice what the first call left, and the second call reached, tree by
\* tree and timestep by timestep, the leaves the first call reached.
C15_SecondPassDoubles ==
    (ev.pc = "done" /\ hist.pass = 2) =>
       /\ hist.log = hist.first.log
       /\ \A p \in 1..Len(seq) :
             seq[p].Output = [j \in DOMAIN seq[p].Output |-> 2 * hist.first.seq[p].Output[j]]

\* Both calls are over; in the first a leaf set its feature bit and a later
\* tree took its true branch on such a bit.
C15_Witness ==
    /\ ev.pc = "done" /\ hist.pass = 2
    /\ \E p \in 1..Len(hist.log) :
          LET t == m.Trees[hist.log[p].k + 1]
          IN /\ hist.log[p].k >= 1
             /\ t.kind = "branch"
             /\ t.Feature[1].Feature >= m.BaseFeatures
             /\ hist.log[p].leaf = t.TrueBranch
    /\ \E p \in 1..Len(hist.first.log) : hist.first.log[p].leaf.Feature # 0
    /\ \E p \in 1..Len(seq) : seq[p].Output # <<0>>

\* A second call does not abort where the first did not.
C15_SecondPassCompletes == hist.pass = 2 => ev.pc # "panic"

(***************************************************************************)
(* optimalFeature, worker by worker.  The candidates are the positions of  *)
(* the ranked list f; what featureSplitQuality returns for each, on the    *)
(* pruning subsample and on all of falses, is an input.  getNext and       *)
(* putResult run under the lock and are one step each.                     *)
(***************************************************************************)
OMaxCands == 3     \* optimalFeature: longest list f
OProcs == {1, 2}   \* optimalFeature: values of GOMAXPROCS
OQualities == {0, 1, 2}
OPruneQualities == {0, 1}
OCandidateSplits == {0, 2}

\* Mutation: getNext hands candidates out whatever the number of successes.
OptimalStopsNever(successfulFeatures, candidateSplits) == FALSE

\* The first test of getNext.
OptimalStops(successfulFeatures, candidateSplits) ==
    successfulFeatures >= Max(1, candidateSplits)

\* Mutation: putResult keeps the last success.
OptimalReplacesAlways(quality, bestQuality, successfulFeatures) == TRUE

\* The test of putResult that replaces the best feature.
OptimalReplaces(quality, bestQuality, successfulFeatures) ==
    quality > bestQuality \/ successfulFeatures = 0

\* The quality a worker passes to putResult for candidate c.
OptimalQuality(o, c) ==
    LET quality == o.pruneQuality[c]
    IN IF quality > 0 /\ o.subsampled THEN o.fullQuality[c] ELSE quality

InitOptimal ==
    /\ \E n \in 0..OMaxCands, procs \in OProcs, cs \in OCandidateSplits,
          subsampled \in BOOLEAN :
       \E full \in [1..n -> OQualities] :
       \E prune \in (IF subsampled THEN [1..n -> OPruneQualities] ELSE {full}) :
          of = [pc |-> "spawn", f |-> n, GOMAXPROCS |-> procs, CandidateSplits |-> cs,
                   subsampled |-> subsampled, fullQuality |-> full, pruneQuality |-> prune,
                   bestFeature |-> 0, bestQuality |-> 0, successfulFeatures |-> 0,
                   currentFeature |-> 0, wg |-> 0, spawned |-> 0,
                   w |-> [i \in 1..procs |-> [pc |-> "unborn", feature |-> 0, quality |-> 0]],
                   handed |-> <<>>, recorded |-> <<>>, result |-> 0]
    /\ pr = [pc |-> "idle"] /\ sc = [pc |-> "idle"] /\ sf = [pc |-> "idle"] /\ StepIdle
    /\ FnIdle /\ EvalIdle /\ AllIdle /\ BuildIdle

\* The spawning loop: wg.Add(1) and go func().
OptimalSpawn ==
    /\ of.pc = "spawn"
    /\ IF of.spawned < of.GOMAXPROCS
       THEN of' = [of EXCEPT !.spawned = @ + 1, !.wg = @ + 1,
                             !.w[of.spawned + 1].pc = "getNext"]
       ELSE of' = [of EXCEPT !.pc = "wait"]
    /\ UNCHANGED <<pr, sc, sf, fnVars, evalVars, allVars, buildVars, stp>>

\* A worker calls getNext; on nil it returns and the deferred wg.Done runs.
OptimalGetNext(i) ==
    /\ of.w[i].pc = "getNext"
    /\ IF OptimalStops(of.successfulFeatures, of.CandidateSplits)
          \/ of.currentFeature = of.f
       THEN of' = [of EXCEPT !.w[i].pc = "stopped", !.wg = @ - 1]
       ELSE of' = [of EXCEPT !.w[i].pc = "evaluate",
                             !.w[i].feature = of.currentFeature + 1,
                             !.currentFeature = @ + 1,
                             !.handed = Append(@, [feature |-> of.currentFeature + 1,
                                                   worker |-> i,
                                                   successes |-> of.successfulFeatures])]
    /\ UNCHANGED <<pr, sc, sf, fnVars, evalVars, allVars, buildVars, stp>>

\* A worker scores its candidate, outside the lock.
OptimalEvaluate(i) ==
    /\ of.w[i].pc = "evaluate"
    /\ of' = [of EXCEPT !.w[i].pc = "putResult",
                        !.w[i].quality = OptimalQuality(of, of.w[i].feature)]
    /\ UNCHANGED <<pr, sc, sf, fnVars, evalVars, allVars, buildVars, stp>>

\* A worker calls putResult.
OptimalPutResult(i) ==
    /\ of.w[i].pc = "putResult"
    /\ LET quality == of.w[i].quality
       IN IF quality <= 0
          THEN of' = [of EXCEPT !.w[i].pc = "getNext"]
          ELSE LET replace == OptimalReplaces(quality, of.bestQuality, of.successfulFeatures)
               IN of' = [of EXCEPT !.w[i].pc = "getNext",
                                   !.bestQuality = IF replace THEN quality ELSE @,
                                   !.bestFeature = IF replace THEN of.w[i].feature ELSE @,
                                   !.successfulFeatures = @ + 1,
                                   !.recorded = Append(@, [feature |-> of.w[i].feature,
                                                           quality |-> quality])]
    /\ UNCHANGED <<pr, sc, sf, fnVars, evalVars, allVars, buildVars, stp>>

\* wg.Wait returns and optimalFeature returns nil (0) or the best feature.
OptimalReturn ==
    /\ of.pc = "wait" /\ of.wg = 0
    /\ of' = [of EXCEPT !.pc = "done",
                        !.result = IF of.successfulFeatures = 0 THEN 0 ELSE of.bestFeature]
    /\ UNCHANGED <<pr, sc, sf, fnVars, evalVars, allVars, buildVars, stp>>

OptimalWorker ==
    \E i \in OProcs :
       /\ of.pc \in {"spawn", "wait"} /\ i <= of.GOMAXPROCS
       /\ (OptimalGetNext(i) \/ OptimalEvaluate(i) \/ OptimalPutResult(i))

NextOptimal == OptimalSpawn \/ OptimalWorker \/ OptimalReturn

SpecOptimal == InitOptimal /\ [][NextOptimal]_vars

\* C18: getNext hands the candidates out in rank order, each once, none
\* once max(1, CandidateSplits) successes are recorded; the successes never
\* exceed max(1, CandidateSplits) + GOMAXPROCS - 1; optimalFeature has
\* returned only if every worker has stopped.
C18_HandOutAndOvershoot ==
    of.pc # "idle" =>
       /\ \A j \in 1..Len(of.handed) :
             /\ of.handed[j].feature = j
             /\ of.handed[j].successes < Max(1, of.CandidateSplits)
       /\ \A i, j \in 1..of.GOMAXPROCS :
             (i # j /\ of.w[i].pc \in {"evaluate", "putResult"}
                    /\ of.w[j].pc \in {"evaluate", "putResult"})
                => of.w[i].feature # of.w[j].feature
       /\ of.successfulFeatures = Len(of.recorded)
       /\ of.successfulFeatures <= Max(1, of.CandidateSplits) + of.GOMAXPROCS - 1
       /\ of.pc = "done" => \A i \in 1..of.GOMAXPROCS : of.w[i].pc = "stopped"

\* optimalFeature has returned with more successes than asked for, two
\* workers having held candidates when the count was reached.
C18_Witness ==
    /\ of.pc = "done"
    /\ of.GOMAXPROCS >= 2
    /\ of.successfulFeatures = Max(1, of.CandidateSplits) + of.GOMAXPROCS - 1
    /\ of.currentFeature < of.f

\* C20: optimalFeature returns nil exactly when no candidate it evaluated
\* was given a positive quality; a returned feature has positive quality on
\* all of falses at fraction 1, the greatest among the recorded successes.
C20_ReturnsBestSuccess ==
    of.pc = "done" =>
       /\ (of.result = 0) <=>
             (\A j \in 1..Len(of.handed) : OptimalQuality(of, of.handed[j].feature) <= 0)
       /\ of.result # 0 =>
             /\ of.fullQuality[of.result] > 0
             /\ \E j \in 1..Len(of.recorded) :
                   /\ of.recorded[j].feature = of.result
                   /\ of.recorded[j].quality = of.fullQuality[of.result]
             /\ \A j \in 1..Len(of.recorded) :
                   of.recorded[j].quality <= of.fullQuality[of.result]

\* optimalFeature has returned a feature that was not the first success
\* recorded, on a pruning subsample that disagreed with the full set about
\* another candidate.
C20_Witness ==
    /\ of.pc = "done" /\ of.result # 0
    /\ Len(of.recorded) >= 2
    /\ of.recorded[1].feature # of.result
    /\ of.subsampled
    /\ \E j \in 1..Len(of.handed) :
          /\ of.pruneQuality[of.handed[j].feature] > 0
          /\ of.fullQuality[of.handed[j].feature] <= 0

(***************************************************************************)
(* sortFeatures, goroutine by goroutine.  The candidates are the positions *)
(* 1..n of the stream the producer enumerates; which of them               *)
(* featureSplitQuality scores above zero is an input.                      *)
(***************************************************************************)
SFChanCap == 10     \* make(chan BranchFeature, 10)
SFMaxCands == 11    \* sortFeatures: most candidates enumerated
SFCands == {0, 1, SFChanCap, SFMaxCands}
SFProcs == {1, 2}   \* sortFeatures: values of GOMAXPROCS

\* The candidates of positive quality: none, all, every third.
SFPositives(n) ==
    {{}, 1..n, {j \in 1..n : j % 3 = 0}}

InitSort ==
    /\ \E n \in SFCands, procs \in SFProcs :
       \E positive \in SFPositives(n) :
          sf = [pc |-> "spawn", n |-> n, positive |-> positive, GOMAXPROCS |-> procs,
                spawned |-> 0, wg |-> 0, sent |-> 0, featureChan |-> <<>>,
                closed |-> FALSE,
                w |-> [i \in 1..procs |-> [pc |-> "unborn", f |-> 0]],
                features |-> <<>>, received |-> <<>>, scored |-> [j \in 1..n |-> 0],
                result |-> <<>>]
    /\ pr = [pc |-> "idle"] /\ sc = [pc |-> "idle"] /\ of = [pc |-> "idle"] /\ StepIdle
    /\ FnIdle /\ EvalIdle /\ AllIdle /\ BuildIdle

\* The spawning loop: wg.Add(1) and go func().
SortSpawn ==
    /\ sf.pc = "spawn"
    /\ IF sf.spawned < sf.GOMAXPROCS
       THEN sf' = [sf EXCEPT !.spawned = @ + 1, !.wg = @ + 1,
                             !.w[sf.spawned + 1].pc = "range"]
       ELSE sf' = [sf EXCEPT !.pc = "produce"]
    /\ UNCHANGED <<pr, sc, of, fnVars, evalVars, allVars, buildVars, stp>>

\* A send on the buffered channel goes through when the buffer has room.
SortCanSend(ch) == Len(ch) < SFChanCap

\* The producer sends the next candidate, or closes the channel after the
\* last one.
SortProduce ==
    /\ sf.pc = "produce"
    /\ IF sf.sent < sf.n
       THEN /\ SortCanSend(sf.featureChan)
            /\ sf' = [sf EXCEPT !.sent = @ + 1,
                                !.featureChan = Append(@, sf.sent + 1)]
       ELSE sf' = [sf EXCEPT !.pc = "wait", !.closed = TRUE]
    /\ UNCHANGED <<pr, sc, of, fnVars, evalVars, allVars, buildVars, stp>>

\* Mutation: a worker leaves the loop as soon as the channel is closed.
SortRangeEndsOnClose(ch, closed) == closed

\* The range over the channel ends when it is closed and drained.
SortRangeEnds(ch, closed) == closed /\ ch = <<>>

\* A worker's range receives a candidate, or ends and wg.Done runs.
SortReceive(i) ==
    /\ sf.w[i].pc = "range"
    /\ IF SortRangeEnds(sf.featureChan, sf.closed)
       THEN sf' = [sf EXCEPT !.w[i].pc = "stopped", !.wg = @ - 1]
       ELSE /\ sf.featureChan # <<>>
            /\ sf' = [sf EXCEPT !.w[i] = [pc |-> "score", f |-> Head(sf.featureChan)],
                                !.featureChan = Tail(@),
                                !.received = Append(@, Head(sf.featureChan))]
    /\ UNCHANGED <<pr, sc, of, fnVars, evalVars, allVars, buildVars, stp>>

\* A worker scores its candidate, outside the lock.
SortScore(i) ==
    /\ sf.w[i].pc = "score"
    /\ sf' = [sf EXCEPT !.w[i].pc = IF sf.w[i].f \in sf.positive THEN "append" ELSE "range",
                        !.scored[sf.w[i].f] = @ + 1]
    /\ UNCHANGED <<pr, sc, of, fnVars, evalVars, allVars, buildVars, stp>>

\* A worker appends its candidate under resultLock.
SortAppend(i) ==
    /\ sf.w[i].pc = "append"
    /\ sf' = [sf EXCEPT !.w[i].pc = "range", !.features = Append(@, sf.w[i].f)]
    /\ UNCHANGED <<pr, sc, of, fnVars, evalVars, allVars, buildVars, stp>>

\* wg.Wait returns; the features are returned (VoodooSort permutes them).
SortReturn ==
    /\ sf.pc = "wait" /\ sf.wg = 0
    /\ sf' = [sf EXCEPT !.pc = "done", !.result = sf.features]
    /\ UNCHANGED <<pr, sc, of, fnVars, evalVars, allVars, buildVars, stp>>

SortWorker ==
    \E i \in SFProcs :
       /\ sf.pc \in {"spawn", "produce", "wait"} /\ i <= sf.GOMAXPROCS
       /\ (SortReceive(i) \/ SortScore(i) \/ SortAppend(i))

NextSort == SortSpawn \/ SortProduce \/ SortWorker \/ SortReturn

SpecSort == InitSort /\ [][NextSort]_vars

\* Some runnable goroutine always takes a step.
SpecSortFair == SpecSort /\ WF_vars(NextSort)

\* The number of positions of a list that hold x.
Occurrences(list, x) == Cardinality({j \in 1..Len(list) : list[j] = x})

\* The candidates are sent and received in stream order, each received
\* candidate is held or was scored by one worker, the channel never holds
\* more than its capacity, and on return every candidate was sent, received
\* and scored once and the list holds the positive ones once each and no
\* other.
SortSafe ==
    sf.pc # "idle" =>
       /\ Len(sf.featureChan) <= SFChanCap
       /\ sf.received \o sf.featureChan = [j \in 1..sf.sent |-> j]
       /\ \A j \in 1..sf.n :
             sf.scored[j] + Cardinality({i \in 1..sf.GOMAXPROCS :
                                            sf.w[i].pc = "score" /\ sf.w[i].f = j})
                = Occurrences(sf.received, j)
       /\ sf.pc = "done" =>
             /\ sf.sent = sf.n /\ sf.closed /\ sf.featureChan = <<>>
             /\ \A i \in 1..sf.GOMAXPROCS : sf.w[i].pc = "stopped"
             /\ \A j \in 1..sf.n :
                   /\ sf.scored[j] = 1
                   /\ Occurrences(sf.result, j) = (IF j \in sf.positive THEN 1 ELSE 0)
             /\ \A k \in 1..Len(sf.result) : sf.result[k] \in sf.positive

\* C19: the producer sends every candidate and closes the channel; every
\* candidate is received and scored by exactly one worker; the returned
\* list holds every candidate of positive quality once and no other; and
\* the call returns, whatever the number of candidates and of workers.
C19_SortFeaturesCompletes == []SortSafe /\ <>(sf.pc = "done")

\* sortFeatures has returned after the producer found the channel full, two
\* workers having appended out of stream order.
C19_Witness ==
    /\ sf.pc = "done"
    /\ sf.n > SFChanCap
    /\ sf.GOMAXPROCS = 2
    /\ \E k \in 1..(Len(sf.result) - 1) : sf.result[k] > sf.result[k + 1]

\* The producer waits on a full channel.
C19_WitnessFull ==
    /\ sf.pc = "produce" /\ sf.sent < sf.n
    /\ Len(sf.featureChan) = SFChanCap

(***************************************************************************)
(* The built tree against the builder's sample groups.                     *)
(***************************************************************************)
\* The path Tree.Evaluate follows from the root of the emitted nodes for the
\* training sample x, down to a leaf.
RECURSIVE EvaluatePath(_, _, _)
EvaluatePath(nodes, x, p) ==
    IF nodes[p].kind = "leaf" THEN p
    ELSE IF UnionTest(LossSample(bdata, x), nodes[p].Feature)
         THEN EvaluatePath(nodes, x, Append(p, 1))
         ELSE EvaluatePath(nodes, x, Append(p, 0))

SeqToSet(list) == {list[j] : j \in 1..Len(list)}

LeafPaths == {p \in DOMAIN btree : btree[p].kind = "leaf"}

\* C21: in the returned tree every branch's trues are the node's samples on
\* which the union is true and its falses the rest; every training sample
\* is evaluated to the leaf whose group holds it and whose output delta was
\* computed from that group; the groups hold every sample once.
C21_GroupsAreRouting ==
    BuildReturned =>
       /\ \A p \in BranchPaths :
             /\ SeqToSet(btree[p].trues) = RoutedTrue(p)
             /\ SeqToSet(btree[p].falses) = RoutedTo(p) \ RoutedTrue(p)
             /\ Len(btree[p].trues) + Len(btree[p].falses) = Cardinality(RoutedTo(p))
       /\ \A x \in SeqToSet(bdata.samples) :
             LET p == EvaluatePath(btree, x, <<>>)
             IN /\ x \in SeqToSet(btree[p].samples)
                /\ TreeEvaluate(BuiltTree, LossSample(bdata, x)).OutputDelta
                      = computeOutputDelta(bdata, btree[p].samples)
                /\ \A q \in LeafPaths \ {p} : x \notin SeqToSet(btree[q].samples)
       /\ \A p \in LeafPaths :
             Len(btree[p].samples) = Cardinality(SeqToSet(btree[p].samples))

\* A returned tree with a union of two features, one of them looking one
\* step into the past.
C21_Witness ==
    /\ BuildReturned
    /\ \E p \in BranchPaths :
          /\ Len(btree[p].Feature) = 2
          /\ \E j \in 1..2 : btree[p].Feature[j].StepsInPast = 1

\* A returned tree of three leaves.
C21_WitnessThreeLeaves == BuildReturned /\ Cardinality(LeafPaths) >= 3

(***************************************************************************)
(* AvgLossDelta and the step Model.Add takes.  Outputs, deltas and steps   *)
(* are exact rationals; the LossFunc is AbsLoss.                           *)
(***************************************************************************)
\* addDelta: res[i] = x + v2[i]*scale.
addDelta(v1, v2, scale) == [i \in 1..Len(v1) |-> RAdd(v1[i], RMul(v2[i], scale))]

\* The sum AvgLossDelta's workers accumulate: newLoss - oldLoss per sample.
RECURSIVE LossDeltaTotal(_, _, _, _)
LossDeltaTotal(data, timesteps, t, step) ==
    IF timesteps = <<>> THEN RInt(0)
    ELSE LET ts == LossSample(data, Head(timesteps))
             leaf == TreeEvaluate(t, ts)
             cur == data.Sequence[Head(timesteps) + 1]
             oldLoss == AbsLoss(cur.Output, cur.Target)
             newOut == addDelta(cur.Output, leaf.OutputDelta, step)
             newLoss == AbsLoss(newOut, cur.Target)
         IN RAdd(RSub(newLoss, oldLoss), LossDeltaTotal(data, Tail(timesteps), t, step))

AvgLossDelta(data, timesteps, t, step) ==
    RDiv(LossDeltaTotal(data, timesteps, t, step), RInt(Len(timesteps)))

\* Tree.Scale on rational deltas.
RECURSIVE Scale(_, _)
Scale(t, s) ==
    IF t.kind = "leaf" THEN [t EXCEPT !.OutputDelta = VectorScale(t.OutputDelta, s)]
    ELSE BranchTree(t.Feature, Scale(t.FalseBranch, s), Scale(t.TrueBranch, s))

\* The factor Model.Add hands to Tree.Scale.
AddFactor(stepSize) == RMul(RInt(-1), stepSize)

StTimesteps == 1..2
StMaxSamples == 2  \* AvgLossDelta: longest list of samples
StSteps == {RInt(0), RInt(1), <<1, 2>>, RInt(-1)}
StSampleLists == UNION {[1..n -> {p - 1 : p \in StTimesteps}] : n \in 1..StMaxSamples}

\* A tree of up to three leaves, a sequence of two timesteps, a list of
\* samples, and the steps handed to AvgLossDelta and to Model.Add: the same
\* step, or its negation.
InitStep ==
    /\ \E n \in 1..3, timesteps \in StSampleLists, step \in StSteps, negate \in BOOLEAN :
       \E shape \in PShapes(n), bits \in [StTimesteps -> SUBSET {0}],
          out \in [StTimesteps -> {-1, 1}] :
          LET data == [Sequence |-> [p \in StTimesteps |->
                          Timestep(BitmapFromSet(1, bits[p]), <<RInt(out[p])>>, <<RInt(0)>>)]]
          IN stp = [pc |-> "call", data |-> data, data0 |-> data, timesteps |-> timesteps,
                    step |-> step,
                    addStep |-> IF negate THEN RMul(RInt(-1), step) ELSE step,
                    t |-> PNumbered(shape, 1), t0 |-> PNumbered(shape, 1),
                    Trees |-> <<>>, avg |-> <<>>, i |-> 0]
    /\ PruneIdle /\ ScaleIdle /\ OptimalIdle /\ SortIdle
    /\ FnIdle /\ EvalIdle /\ AllIdle /\ BuildIdle

\* AvgLossDelta(timesteps, t, loss, step) returns.
StepAvgLossDelta ==
    /\ stp.pc = "call"
    /\ stp' = [stp EXCEPT !.pc = "measured",
                          !.avg = <<AvgLossDelta(stp.data, stp.timesteps, stp.t, stp.step)>>]
    /\ UNCHANGED <<pr, sc, of, sf, fnVars, evalVars, allVars, buildVars>>

\* Model.Add(t, addStep): the tree is scaled in place and appended.
StepAdd ==
    /\ stp.pc = "measured"
    /\ LET scaled == Scale(stp.t, AddFactor(stp.addStep))
       IN stp' = [stp EXCEPT !.pc = "added", !.t = scaled, !.Trees = Append(@, scaled)]
    /\ UNCHANGED <<pr, sc, of, sf, fnVars, evalVars, allVars, buildVars>>

\* One iteration of EvaluateAt(seq, 0) for the added tree: the delta of the
\* leaf the timestep reaches is added to its output.
StepEvaluate ==
    /\ stp.pc = "added"
    /\ stp.i < Len(stp.data.Sequence)
    /\ LET leaf == TreeEvaluate(stp.Trees[1], LossSample(stp.data, stp.i))
       IN stp' = [stp EXCEPT !.i = @ + 1,
                             !.data.Sequence[stp.i + 1].Output =
                                 VectorAdd(@, leaf.OutputDelta)]
    /\ UNCHANGED <<pr, sc, of, sf, fnVars, evalVars, allVars, buildVars>>

\* EvaluateAt returns.
StepEvaluated ==
    /\ stp.pc = "added"
    /\ stp.i = Len(stp.data.Sequence)
    /\ stp' = [stp EXCEPT !.pc = "done"]
    /\ UNCHANGED <<pr, sc, of, sf, fnVars, evalVars, allVars, buildVars>>

NextStep == StepAvgLossDelta \/ StepAdd \/ StepEvaluate \/ StepEvaluated

SpecStep == InitStep /\ [][NextStep]_vars

\* The output the step functions evaluate for timestep i at step s: the
\* output at the call plus s times the delta of the leaf reached in the
\* tree as it was handed over.
SteppedOutput(i, s) ==
    addDelta(stp.data0.Sequence[i + 1].Output,
             TreeEvaluate(stp.t0, LossSample(stp.data0, i)).OutputDelta, s)

\* The mean, over the samples, of the loss after the evaluation minus the
\* loss at the call.
RECURSIVE AppliedLossChange(_)
AppliedLossChange(timesteps) ==
    IF timesteps = <<>> THEN RInt(0)
    ELSE LET i == Head(timesteps)
         IN RAdd(RSub(AbsLoss(stp.data.Sequence[i + 1].Output,
                              stp.data.Sequence[i + 1].Target),
                      AbsLoss(stp.data0.Sequence[i + 1].Output,
                              stp.data0.Sequence[i + 1].Target)),
                 AppliedLossChange(Tail(timesteps)))

StepMatches(s) ==
    /\ \A j \in 1..Len(stp.timesteps) :
          stp.data.Sequence[stp.timesteps[j] + 1].Output = SteppedOutput(stp.timesteps[j], s)
    /\ stp.avg[1] = RDiv(AppliedLossChange(stp.timesteps), RInt(Len(stp.timesteps)))

\* C22: after AvgLossDelta(samples, tree, loss, s), Model.Add(tree, s) and
\* the evaluation of the added tree, every sample's output is its output at
\* the call plus s times the delta of the leaf it reaches, and the value
\* AvgLossDelta returned is the mean loss change the addition caused.
C22_StepIsAddedChange ==
    (stp.pc = "done" /\ stp.addStep = stp.step) => StepMatches(stp.step)

\* What the code does instead: the outputs and the mean loss change that the
\* step functions evaluate for s are those of Model.Add(tree, -s).
C22_StepIsNegatedAdd ==
    (stp.pc = "done" /\ stp.addStep = RMul(RInt(-1), stp.step)) => StepMatches(stp.step)

\* The addition of a tree with step 1 has been evaluated, and some sample
\* reaches a leaf whose delta is not zero.
C22_Witness ==
    /\ stp.pc = "done" /\ stp.addStep = stp.step /\ stp.step = RInt(1)
    /\ \E j \in 1..Len(stp.timesteps) :
          TreeEvaluate(stp.t0, LossSample(stp.data0, stp.timesteps[j])).OutputDelta # <<RInt(0)>>

(***************************************************************************)
(* pruneLeaf, by the paths of the tree: <<>> is the root, 0 the false      *)
(* branch and 1 the true branch.                                           *)
(***************************************************************************)
RECURSIVE SubtreeAt(_, _)
SubtreeAt(t, p) ==
    IF p = <<>> THEN t
    ELSE SubtreeAt(IF Head(p) = 0 THEN t.FalseBranch ELSE t.TrueBranch, Tail(p))

RECURSIVE TreePaths(_)
TreePaths(t) ==
    IF t.kind = "leaf" THEN {<<>>}
    ELSE {<<>>} \cup {<<0>> \o p : p \in TreePaths(t.FalseBranch)}
                \cup {<<1>> \o p : p \in TreePaths(t.TrueBranch)}

IsPrefix(q, p) == Len(q) <= Len(p) /\ SubSeq(p, 1, Len(q)) = q

\* The path of the leaf of id l.
PathOfLeaf(t, l) ==
    CHOOSE p \in TreePaths(t) : IsLeafId(SubtreeAt(t, p), l)

RECURSIVE WithoutLeaf(_, _)
WithoutLeaf(leaves, l) ==
    IF leaves = <<>> THEN <<>>
    ELSE (IF Head(leaves).id = l THEN <<>> ELSE <<Head(leaves)>>)
         \o WithoutLeaf(Tail(leaves), l)

\* The sequences of two timesteps over one feature, as samples.
PAnySamples ==
    {TimestepSample([p \in PTimesteps |->
                       Timestep(BitmapFromSet(1, bits[p]), <<0>>, <<0>>)], x) :
       bits \in [PTimesteps -> SUBSET {0}], x \in PAllSamples}

\* r is t with the branch above the leaf of id l replaced by the leaf's
\* sibling and nothing else changed: the branches above keep their unions,
\* the subtrees beside are the same, the leaves are those of t without l,
\* and a sample t routes to another leaf reaches that leaf in r.
PrunedOf(t, l, r) ==
    LET p == PathOfLeaf(t, l)
        q == SubSeq(p, 1, Len(p) - 1)
        sibling == SubtreeAt(t, Append(q, 1 - p[Len(p)]))
    IN /\ SubtreeAt(r, q) = sibling
       /\ \A u \in TreePaths(t) :
             IF IsPrefix(u, q) /\ u # q
             THEN /\ SubtreeAt(r, u).kind = "branch"
                  /\ SubtreeAt(r, u).Feature = SubtreeAt(t, u).Feature
             ELSE ~IsPrefix(q, u) => SubtreeAt(r, u) = SubtreeAt(t, u)
       /\ TreeLeaves(r) = WithoutLeaf(TreeLeaves(t), l)
       /\ \A x \in PAnySamples :
             TreeEvaluate(t, x).id # l => TreeEvaluate(r, x) = TreeEvaluate(t, x)

\* C23: for a tree of at least two leaves and any of its leaves l,
\* pruneLeaf(t, l) is t with the branch above l replaced by l's sibling and
\* nothing else changed; its leaves are those of t other than l, and every
\* sample t routes to a leaf other than l is routed to that same leaf.
\* Stated of every candidate of the tree Prune holds and of the candidate
\* the last iteration adopted.
C23_PruneLeafRemovesOneLeaf ==
    pr.pc \in {"loop", "done"} /\ pr.version # "prune.go:116" =>
       /\ PLeafCount(pr.result) >= 2 =>
             \A j \in 1..PLeafCount(pr.result) :
                LET l == TreeLeaves(pr.result)[j].id
                IN PrunedOf(pr.result, l, pruneLeaf(pr.result, l))
       /\ (pr.pc = "loop" /\ pr.last # <<>>) =>
             PrunedOf(pr.last[1], pr.last[2], pr.result)

\* An iteration of Prune has adopted pruneLeaf of a three-leaf tree for a
\* leaf two levels down.
C23_Witness ==
    /\ pr.pc = "loop" /\ pr.last # <<>>
    /\ PLeafCount(pr.last[1]) = 3
    /\ Len(PathOfLeaf(pr.last[1], pr.last[2])) = 2

\* The ids of the leaf objects of a tree.
LeafObjects(t) == {TreeLeaves(t)[j].id : j \in 1..Len(TreeLeaves(t))}

\* C24: Prune never modifies the tree it is given: whatever Prune has done,
\* the input tree has the structure, the leaf objects and the deltas it had
\* at the call; the tree returned after pruning shares no leaf object with
\* it, while the candidates of the iterations do.
C24_InputTreeUnchanged ==
    pr.pc # "idle" /\ pr.version # "prune.go:116" =>
       /\ pr.t = pr.t0
       /\ (pr.pc = "done" /\ pr.removed > 0) =>
             /\ LeafObjects(pr.result) \cap LeafObjects(pr.t0) = {}
             /\ LeafObjects(pr.pruned) \subseteq LeafObjects(pr.t0)

\* Prune has returned a pruned tree one of whose leaves was given a delta
\* other than the one its original has in the input tree.
C24_Witness ==
    /\ pr.pc = "done" /\ pr.removed > 0 /\ pr.version # "prune.go:116"
    /\ \E j \in 1..PLeafCount(pr.result) :
          TreeLeaves(pr.result)[j].OutputDelta # TreeLeaves(pr.pruned)[j].OutputDelta

(***************************************************************************)
(* evaluateFeature's fast path against TimestepSample.BranchFeature, on    *)
(* bitmaps of more than one byte.                                          *)
(***************************************************************************)
FastBits == 10     \* fast path: bits per bitmap
FastSeqLen == 2    \* fast path: timesteps of the sequence

\* The bits the bitmaps are filled from: the ends of the first byte, the
\* first bit of the second and the last bit.
FastFilled == {0, 7, 8, FastBits - 1}

InitFast ==
    /\ \E bits \in [1..FastSeqLen -> SUBSET FastFilled] :
          fin = [op |-> "none", bits |-> bits,
                 Sequence |-> [p \in 1..FastSeqLen |->
                                 Timestep(BitmapFromSet(FastBits, bits[p]), <<0>>, <<0>>)]]
    /\ fout = [op |-> "none"]
    /\ EvalIdle /\ AllIdle /\ BuildIdle /\ LaterIdle

\* One iteration of the loop of evaluateFeature for the sample at Index i,
\* next to sample.BranchFeature(f).
CallBranchFeatureFast ==
    /\ fin.op = "none"
    /\ \E i \in 0..(FastSeqLen - 1), f \in -1..(FastBits - 1), k \in 0..FastSeqLen :
          LET b == BranchFeatureRec(f, k)
              args == evaluateFeatureArgs(b)
          IN /\ fin' = [op |-> "BranchFeatureFast", bits |-> fin.bits,
                        Sequence |-> fin.Sequence, Index |-> i, b |-> b]
             /\ fout' = [op |-> "BranchFeatureFast",
                         val |-> BranchFeatureFast(FnSample(i), k, args.byteIdx,
                                                   args.bitMask),
                         panics |-> BranchFeaturePanics(FnSample(i), b),
                         value |-> BranchFeature(FnSample(i), b)]
    /\ UNCHANGED <<evalVars, allVars, buildVars, laterVars>>

NextFast == CallBranchFeatureFast

SpecFast == InitFast /\ [][NextFast]_vars

\* C25: for every sample, every horizon and every feature from -1 to the
\* bitmap length - 1, BranchFeatureFast with the byteIdx and bitMask of
\* evaluateFeature returns what TimestepSample.BranchFeature returns, which
\* is the bit the sequence was filled with.
C25_FastEqualsBranchFeature ==
    fin.op = "BranchFeatureFast" =>
       /\ ~fout.panics
       /\ fout.val = fout.value
       /\ fout.val = FnMemberTrue(fin.Index, fin.b)

\* The fast path has read a set bit of the second byte, one step in the
\* past, that the sample's own timestep does not have.
C25_Witness ==
    /\ fin.op = "BranchFeatureFast"
    /\ fin.b.Feature > 8 /\ fin.b.StepsInPast = 1 /\ fin.Index = 1
    /\ fout.val = TRUE
    /\ fin.b.Feature \notin fin.bits[fin.Index + 1]

\* The sentinel has been evaluated before the start of the sequence.
C25_WitnessSentinel ==
    /\ fin.op = "BranchFeatureFast"
    /\ fin.b.Feature = -1 /\ fin.b.StepsInPast > fin.Index
    /\ fout.val = TRUE

(***************************************************************************)
(* Subsampling to a limit: subsampleLimit (build.go:551) and the loop of   *)
(* Builder.build (train.go:208).  rand.Perm(n) is any permutation of       *)
(* 0..n-1; samples are named by their position in the list, from 1.        *)
(***************************************************************************)
SubMaxLen == 4     \* subsampling: longest list of samples, largest limit - 1

SubVersions == {"build.go:551", "train.go:208"}

\* The outcomes of rand.Perm(n).
Perm(n) == {q \in [1..n -> 0..(n - 1)] : \A a, b \in 1..n : q[a] = q[b] => a = b}

\* The argument of rand.Perm: len(samples) in subsampleLimit; in
\* Builder.build len(splitSamples), after splitSamples was made of length
\* MaxSplitSamples.
PermLength(version, n, max) == IF version = "train.go:208" THEN max ELSE n

\* The test that leaves the whole set in place.
SubsampleWhole(n, max) == ~(max # 0 /\ n > max)

\* The lists the call can return: for i, j := range rand.Perm(...)[:max],
\* splitSamples[i] = samples[j].
SubsampleOutcomes(version, samples, max) ==
    IF SubsampleWhole(Len(samples), max) THEN {samples}
    ELSE {[i \in 1..max |-> samples[q[i] + 1]] :
             q \in Perm(PermLength(version, Len(samples), max))}

InitSubsample ==
    /\ \E version \in SubVersions, n \in 1..SubMaxLen, max \in 0..(SubMaxLen + 1) :
          stp = [pc |-> "call", version |-> version,
                 samples |-> [j \in 1..n |-> j], max |-> max,
                 splitSamples |-> <<>>, sampleFrac |-> <<>>]
    /\ PruneIdle /\ ScaleIdle /\ OptimalIdle /\ SortIdle
    /\ FnIdle /\ EvalIdle /\ AllIdle /\ BuildIdle

\* The call returns the subsample and sample_frac.
Subsample ==
    /\ stp.pc = "call"
    /\ \E split \in SubsampleOutcomes(stp.version, stp.samples, stp.max) :
          stp' = [stp EXCEPT !.pc = "done", !.splitSamples = split,
                             !.sampleFrac = Rat(Len(split), Len(stp.samples))]
    /\ UNCHANGED <<pr, sc, of, sf, fnVars, evalVars, allVars, buildVars>>

NextSubsample == Subsample

SpecSubsample == InitSubsample /\ [][NextSubsample]_vars

\* What is returned: the whole list when max = 0 or the list is no longer
\* than max, otherwise max samples from pairwise distinct positions; and
\* sample_frac is the size of the subsample over the size of the list.
SubsampleReturned ==
    stp.pc = "done" =>
       /\ IF stp.max = 0 \/ Len(stp.samples) <= stp.max
          THEN stp.splitSamples = stp.samples
          ELSE /\ Len(stp.splitSamples) = stp.max
               /\ \A a, b \in 1..stp.max :
                     stp.splitSamples[a] = stp.splitSamples[b] => a = b
               /\ \A a \in 1..stp.max :
                     stp.splitSamples[a] \in 1..Len(stp.samples)
       /\ stp.sampleFrac = Rat(Len(stp.splitSamples), Len(stp.samples))

\* Every sample of the list is in some list the call that returned could
\* have returned.
SubsampleSelectable ==
    stp.pc = "done" =>
       \A x \in 1..Len(stp.samples) :
          \E split \in SubsampleOutcomes(stp.version, stp.samples, stp.max),
             a \in 1..Len(stp.samples) :
                a <= Len(split) /\ split[a] = stp.samples[x]

\* C26: subsampling to limit m returns the whole set when m = 0 or the set
\* is no larger than m, otherwise exactly m samples from pairwise distinct
\* positions, and every sample of the set can be selected; sample_frac is
\* the subsample size over the size of the whole set.
C26_SubsampleWithoutReplacement ==
    SubsampleReturned /\ SubsampleSelectable

\* The same of subsampleLimit (build.go:551) alone.
C26_SubsampleLimit ==
    stp.version = "build.go:551" => (SubsampleReturned /\ SubsampleSelectable)

\* Of the loop of Builder.build (train.go:208), only what is returned.
C26_BuildReturnsDistinct ==
    stp.version = "train.go:208" => SubsampleReturned

\* The loop of Builder.build returns positions 1..max only.
C26_BuildSelectsPrefix ==
    (stp.pc = "done" /\ stp.version = "train.go:208"
        /\ ~SubsampleWhole(Len(stp.samples), stp.max)) =>
       \A a \in 1..stp.max : stp.splitSamples[a] <= stp.max

\* subsampleLimit has returned two of three samples, the last among them.
C26_Witness ==
    /\ stp.pc = "done" /\ stp.version = "build.go:551"
    /\ Len(stp.samples) = 3 /\ stp.max = 2
    /\ \E a \in 1..2 : stp.splitSamples[a] = 3

(***************************************************************************)
(* What EvaluateAt leaves alone.                                           *)
(***************************************************************************)
\* The bits set in a bitmap.
BitsSet(b) == {i \in 0..(b.numBits - 1) : BitmapGet(b, i)}

\* C27: EvaluateAt(seq, start) changes only outputs and bitmaps of the
\* timesteps at index >= start, and in a bitmap only sets bits; targets,
\* the timesteps before start and the model (trees, BaseFeatures,
\* ExtraFeatures) are as they were at the call.
C27_EvaluateAtFrame ==
    (ev.pc \in {"loop", "done", "panic"} /\ hist.pass = 1) =>
       /\ m = hist.m0
       /\ Len(seq) = Len(hist.seq0)
       /\ \A p \in 1..Len(seq) :
             /\ seq[p].Target = hist.seq0[p].Target
             /\ p - 1 < ev.start => seq[p] = hist.seq0[p]
             /\ seq[p].Features.numBits = hist.seq0[p].Features.numBits
             /\ Len(seq[p].Features.bytes) = Len(hist.seq0[p].Features.bytes)
             /\ BitsSet(hist.seq0[p].Features) \subseteq BitsSet(seq[p].Features)

\* EvaluateAt(seq, 1) has returned for a model of two trees: the timestep
\* at index 1 had a bit set at the call, has another bit and another output
\* now, and the timestep before it had a bit set too.
C27_Witness ==
    /\ ev.pc = "done" /\ hist.pass = 1 /\ ev.start = 1
    /\ Len(m.Trees) = 2
    /\ BitsSet(hist.seq0[1].Features) # {}
    /\ BitsSet(hist.seq0[2].Features) # {}
    /\ BitsSet(seq[2].Features) # BitsSet(hist.seq0[2].Features)
    /\ seq[2].Output # hist.seq0[2].Output

(***************************************************************************)
(* minimizeUnary in exact arithmetic, iteration by iteration.  A number is *)
(* <<a, b>> for a + b * sqrt(5) with a and b rational, so that math.Phi =  *)
(* (1 + sqrt(5)) / 2 is exact; f is any function into MinValues.           *)
(***************************************************************************)
QRat(a) == <<a, RInt(0)>>
QAdd(x, y) == <<RAdd(x[1], y[1]), RAdd(x[2], y[2])>>
QSub(x, y) == <<RSub(x[1], y[1]), RSub(x[2], y[2])>>
QHalf(x) == <<RDiv(x[1], RInt(2)), RDiv(x[2], RInt(2))>>

\* a + b * sqrt(5) >= 0.
QNonNeg(x) ==
    LET a == x[1]
        b == x[2]
        a2 == RMul(a, a)
        b2 == RMul(RInt(5), RMul(b, b))
    IN IF ~RLess(a, RInt(0)) /\ ~RLess(b, RInt(0)) THEN TRUE
       ELSE IF ~RLess(RInt(0), a) /\ ~RLess(RInt(0), b) THEN FALSE
       ELSE IF RLess(b, RInt(0)) THEN ~RLess(a2, b2)
       ELSE ~RLess(b2, a2)

QLessEq(x, y) == QNonNeg(QSub(y, x))

\* Mutation: the divisor is 13/8, a convergent of the golden ratio.
DivPhiConvergent(x) == <<RDiv(x[1], <<13, 8>>), RDiv(x[2], <<13, 8>>)>>

\* x / math.Phi = x * (sqrt(5) - 1) / 2.
DivPhi(x) ==
    <<RDiv(RSub(RMul(RInt(5), x[2]), x[1]), RInt(2)), RDiv(RSub(x[1], x[2]), RInt(2))>>

\* The interior points of the bracket.
Mid1(minX, maxX) == QSub(maxX, DivPhi(QSub(maxX, minX)))
Mid2(minX, maxX) == QAdd(minX, DivPhi(QSub(maxX, minX)))

MinIters == 3      \* minimizeUnary: largest iters
MinValues == {0, 1, 2}
MinBrackets == {<<0, 1>>, <<0, 2>>, <<-1, 1>>}

\* midValue1 and midValue2 are <<>> for nil, else a record of the value and
\* of the point f was called at.
InitMinimize ==
    /\ \E br \in MinBrackets, iters \in 0..MinIters :
          stp = [pc |-> "loop", iters |-> iters, i |-> 0,
                 min0 |-> QRat(RInt(br[1])), max0 |-> QRat(RInt(br[2])),
                 minX |-> QRat(RInt(br[1])), maxX |-> QRat(RInt(br[2])),
                 midValue1 |-> <<>>, midValue2 |-> <<>>,
                 calls |-> <<>>, reused |-> <<>>, result |-> <<>>]
    /\ PruneIdle /\ ScaleIdle /\ OptimalIdle /\ SortIdle
    /\ FnIdle /\ EvalIdle /\ AllIdle /\ BuildIdle

\* One iteration of the loop: f is called for each missing value, the
\* bracket contracts and the surviving value is kept.
MinimizeIter ==
    /\ stp.pc = "loop" /\ stp.i < stp.iters
    /\ \E x1, x2 \in MinValues :
          LET mid1 == Mid1(stp.minX, stp.maxX)
              mid2 == Mid2(stp.minX, stp.maxX)
              midValue1 == IF stp.midValue1 = <<>> THEN [v |-> x1, x |-> mid1]
                           ELSE stp.midValue1
              midValue2 == IF stp.midValue2 = <<>> THEN [v |-> x2, x |-> mid2]
                           ELSE stp.midValue2
              called == (IF stp.midValue1 = <<>> THEN <<mid1>> ELSE <<>>)
                           \o (IF stp.midValue2 = <<>> THEN <<mid2>> ELSE <<>>)
              reused == IF stp.midValue1 # <<>> THEN <<[at |-> stp.midValue1.x, mid |-> mid1]>>
                        ELSE IF stp.midValue2 # <<>>
                        THEN <<[at |-> stp.midValue2.x, mid |-> mid2]>>
                        ELSE <<>>
          IN /\ stp.midValue1 # <<>> => x1 = CHOOSE v \in MinValues : TRUE
             /\ stp.midValue2 # <<>> => x2 = CHOOSE v \in MinValues : TRUE
             /\ stp' = IF midValue2.v < midValue1.v
                       THEN [stp EXCEPT !.i = @ + 1, !.minX = mid1,
                                        !.midValue1 = midValue2, !.midValue2 = <<>>,
                                        !.calls = Append(@, called),
                                        !.reused = @ \o reused]
                       ELSE [stp EXCEPT !.i = @ + 1, !.maxX = mid2,
                                        !.midValue2 = midValue1, !.midValue1 = <<>>,
                                        !.calls = Append(@, called),
                                        !.reused = @ \o reused]
    /\ UNCHANGED <<pr, sc, of, sf, fnVars, evalVars, allVars, buildVars>>

\* return (minX + maxX) / 2.
MinimizeReturn ==
    /\ stp.pc = "loop" /\ stp.i = stp.iters
    /\ stp' = [stp EXCEPT !.pc = "done", !.result = <<QHalf(QAdd(stp.minX, stp.maxX))>>]
    /\ UNCHANGED <<pr, sc, of, sf, fnVars, evalVars, allVars, buildVars>>

NextMinimize == MinimizeIter \/ MinimizeReturn

SpecMinimize == InitMinimize /\ [][NextMinimize]_vars

RECURSIVE DivPhiTimes(_, _)
DivPhiTimes(x, n) == IF n = 0 THEN x ELSE DivPhi(DivPhiTimes(x, n - 1))

RECURSIVE CallCount(_)
CallCount(calls) == IF calls = <<>> THEN 0 ELSE Len(Head(calls)) + CallCount(Tail(calls))

\* C28: minimizeUnary makes exactly iters contractions of the bracket, each
\* by 1/Phi; f is called twice in the first iteration and once in each
\* later one (iters + 1 calls, none when iters = 0); a value that is reused
\* is f at the interior point of the contracted bracket it stands for; the
\* result is the midpoint of the final bracket and lies in [min, max].
C28_GoldenSection ==
    /\ stp.i <= stp.iters
    /\ Len(stp.calls) = stp.i
    /\ \A j \in 1..Len(stp.calls) : Len(stp.calls[j]) = (IF j = 1 THEN 2 ELSE 1)
    /\ CallCount(stp.calls) = (IF stp.i = 0 THEN 0 ELSE stp.i + 1)
    /\ QSub(stp.maxX, stp.minX) = DivPhiTimes(QSub(stp.max0, stp.min0), stp.i)
    /\ QLessEq(stp.min0, stp.minX) /\ QLessEq(stp.maxX, stp.max0)
    /\ \A j \in 1..Len(stp.reused) : stp.reused[j].at = stp.reused[j].mid
    /\ Len(stp.reused) = (IF stp.i = 0 THEN 0 ELSE stp.i - 1)
    /\ stp.midValue1 # <<>> => stp.midValue1.x = Mid1(stp.minX, stp.maxX)
    /\ stp.midValue2 # <<>> => stp.midValue2.x = Mid2(stp.minX, stp.maxX)
    /\ stp.pc = "done" =>
          /\ stp.i = stp.iters
          /\ stp.result[1] = QHalf(QAdd(stp.minX, stp.maxX))
          /\ QLessEq(stp.min0, stp.result[1]) /\ QLessEq(stp.result[1], stp.max0)

\* minimizeUnary has returned after three iterations that contracted the
\* bracket from both sides, reusing a value on each side.
C28_Witness ==
    /\ stp.pc = "done" /\ stp.iters = 3
    /\ stp.minX # stp.min0 /\ stp.maxX # stp.max0
    /\ Len(stp.reused) = 2

\* minimizeUnary has returned the midpoint of the bracket it was given,
\* without a call of f.
C28_WitnessNoIteration ==
    /\ stp.pc = "done" /\ stp.iters = 0 /\ stp.calls = <<>>
    /\ stp.result[1] = QHalf(QAdd(stp.min0, stp.max0))

(***************************************************************************)
(* Loss gradients and Hessians, and HessianHeuristic.SampleVector.  An     *)
(* output k stands for the logit k * ln 2, so that math.Exp is a power of  *)
(* two and every quantity is an exact rational; targets are rationals.     *)
(***************************************************************************)
\* math.Exp(x - max) for outputs x and max, x <= max.
ExpDiff(x, max) == <<1, Pow2(max - x)>>

RECURSIVE SeqMax(_)
SeqMax(s) ==
    IF Len(s) = 1 THEN s[1]
    ELSE LET r == SeqMax(Tail(s)) IN IF Head(s) > r THEN Head(s) ELSE r

RECURSIVE RSeqSum(_)
RSeqSum(s) == IF s = <<>> THEN RInt(0) ELSE RAdd(Head(s), RSeqSum(Tail(s)))

\* Softmax.LossGrad: targetSum * softmax(outputs)[i] - targets[i].
SoftmaxLossGrad(outputs, targets) ==
    LET targetSum == RSeqSum(targets)
        maxOutput == SeqMax(outputs)
        exps == [i \in 1..Len(outputs) |-> ExpDiff(outputs[i], maxOutput)]
        div == RDiv(RInt(1), RSeqSum(exps))
    IN [i \in 1..Len(outputs) |->
          RSub(RMul(RMul(targetSum, exps[i]), div), targets[i])]

\* Softmax.LossHessian: Data[i + j*Dim], here at position i + j*Dim + 1.
SoftmaxLossHessian(outputs, targets) ==
    LET dim == Len(outputs)
        max == SeqMax(outputs)
        exps == [i \in 1..dim |-> ExpDiff(outputs[i], max)]
        expSum == RSeqSum(exps)
        expSumSq == RMul(expSum, expSum)
        targetSum == RSeqSum(targets)
        val(i, j) ==
            RMul(RAdd(RDiv(RMul(RMul(RInt(-1), exps[j + 1]), exps[i + 1]), expSumSq),
                      IF i = j THEN RDiv(exps[i + 1], expSum) ELSE RInt(0)),
                 targetSum)
    IN [Dim |-> dim,
        Data |-> [q \in 1..(dim * dim) |-> val((q - 1) % dim, (q - 1) \div dim)]]

\* Sigmoid.LossGrad: per coordinate, the first component of the softmax
\* gradient on the logits (x, 0) and the targets (t, 1 - t).
SigmoidLossGrad(outputs, targets) ==
    [i \in 1..Len(outputs) |->
        SoftmaxLossGrad(<<outputs[i], 0>>,
                        <<targets[i], RSub(RInt(1), targets[i])>>)[1]]

\* Sigmoid.LossHessian: a diagonal matrix.
SigmoidLossHessian(outputs, targets) ==
    LET dim == Len(outputs)
        h(i) == SoftmaxLossHessian(<<outputs[i], 0>>,
                                   <<targets[i], RSub(RInt(1), targets[i])>>)
    IN [Dim |-> dim,
        Data |-> [q \in 1..(dim * dim) |->
                    IF (q - 1) % dim = (q - 1) \div dim
                    THEN h(((q - 1) % dim) + 1).Data[1] ELSE RInt(0)]]

LossGrad(loss, outputs, targets) ==
    IF loss = "Sigmoid" THEN SigmoidLossGrad(outputs, targets)
    ELSE SoftmaxLossGrad(outputs, targets)

LossHessian(loss, outputs, targets) ==
    IF loss = "Sigmoid" THEN SigmoidLossHessian(outputs, targets)
    ELSE SoftmaxLossHessian(outputs, targets)

\* hess.Data[i+i*hess.Dim] += h.Damping for every i.
Damped(hess, damping) ==
    [q \in 1..(hess.Dim * hess.Dim) |->
        IF (q - 1) % hess.Dim = (q - 1) \div hess.Dim
        THEN RAdd(hess.Data[q], damping) ELSE hess.Data[q]]

\* HessianHeuristic.SampleVector.
HessianSampleVector(h, ts) ==
    LET grad == SoftmaxLossGrad(ts.Output, ts.Target)
        hess == LossHessian(h.Loss, ts.Output, ts.Target)
    IN grad \o Damped(hess, h.Damping)

HMaxDim == 2       \* Hessian heuristic: largest output dimension
HLosses == {"Softmax", "Sigmoid"}
HOutputs == {-1, 0, 1}
HDampings == {RInt(0), <<1, 10>>}

InitHessian ==
    /\ \E loss \in HLosses, d \in 1..HMaxDim, damping \in HDampings :
       \E out \in [1..d -> HOutputs], target \in [1..d -> {0, 1}] :
          stp = [pc |-> "call", h |-> [Loss |-> loss, Damping |-> damping],
                 ts |-> Timestep(NewBitmap(0), out, [i \in 1..d |-> RInt(target[i])]),
                 vector |-> <<>>]
    /\ PruneIdle /\ ScaleIdle /\ OptimalIdle /\ SortIdle
    /\ FnIdle /\ EvalIdle /\ AllIdle /\ BuildIdle

\* h.SampleVector(sample) returns.
CallHessianSampleVector ==
    /\ stp.pc = "call"
    /\ stp' = [stp EXCEPT !.pc = "done", !.vector = HessianSampleVector(stp.h, stp.ts)]
    /\ UNCHANGED <<pr, sc, of, sf, fnVars, evalVars, allVars, buildVars>>

NextHessian == CallHessianSampleVector

SpecHessian == InitHessian /\ [][NextHessian]_vars

\* The vector has length d + d*d and its last d*d entries are the Hessian
\* of the configured loss with Damping added to each diagonal entry.
HessianPart ==
    LET d == Len(stp.ts.Output)
        hess == LossHessian(stp.h.Loss, stp.ts.Output, stp.ts.Target)
    IN /\ Len(stp.vector) = d + d * d
       /\ \A i, j \in 0..(d - 1) :
             stp.vector[d + i + j * d + 1] =
                (IF i = j THEN RAdd(hess.Data[i + j * d + 1], stp.h.Damping)
                 ELSE hess.Data[i + j * d + 1])

\* The first d entries are the gradient of the loss named.
GradientPart(loss) ==
    SubSeq(stp.vector, 1, Len(stp.ts.Output)) = LossGrad(loss, stp.ts.Output, stp.ts.Target)

\* C29: for a HessianHeuristic with any Hessian-capable loss, SampleVector
\* returns a vector of length d + d*d whose first d entries are the gradient
\* of the configured loss and whose remaining d*d entries are the Hessian
\* with Damping added to each diagonal entry.
C29_GradientAndDampedHessian ==
    stp.pc = "done" => (GradientPart(stp.h.Loss) /\ HessianPart)

\* What the code does: the gradient is Softmax's whatever the loss, the
\* Hessian is the configured loss's.
C29_GradientIsSoftmax ==
    stp.pc = "done" => (GradientPart("Softmax") /\ HessianPart)

\* SampleVector has returned for the Sigmoid loss, two outputs and a damping
\* other than zero.
C29_Witness ==
    /\ stp.pc = "done" /\ stp.h.Loss = "Sigmoid"
    /\ Len(stp.ts.Output) = 2 /\ stp.h.Damping # RInt(0)

(***************************************************************************)
(* Polynomials of the Sigmoid loss.  A logit is k * ln 2 for an integer k, *)
(* so math.Exp is the rational 2^k; math.Log is kept symbolic: a           *)
(* coefficient is <<r, w>> for r + the sum over k of w[k] * log(sigmoid(k  *)
(* ln 2)), with r and the weights w[k] rational.                           *)
(***************************************************************************)
\* Products and quotients of rationals in lowest terms, reduced crosswise
\* before multiplying so that intermediate values stay small.
RTimes(a, b) ==
    LET g1 == Gcd(Abs(a[1]), b[2])
        g2 == Gcd(Abs(b[1]), a[2])
    IN Rat((a[1] \div g1) * (b[1] \div g2), (a[2] \div g2) * (b[2] \div g1))

RPlus(a, b) ==
    LET g == Gcd(a[2], b[2])
    IN Rat(a[1] * (b[2] \div g) + b[1] * (a[2] \div g), (a[2] \div g) * b[2])

ROver(a, b) == RTimes(a, IF b[1] < 0 THEN <<-b[2], -b[1]>> ELSE <<b[2], b[1]>>)

PolyLogits == -1..1

CoefRat(r) == <<r, [k \in PolyLogits |-> RInt(0)]>>
CoefLogSigmoid(x) == <<RInt(0), [k \in PolyLogits |-> IF k = x THEN RInt(1) ELSE RInt(0)]>>
CoefScale(c, s) == <<RTimes(c[1], s), [k \in PolyLogits |-> RTimes(c[2][k], s)]>>
CoefAdd(c, d) == <<RPlus(c[1], d[1]), [k \in PolyLogits |-> RPlus(c[2][k], d[2][k])]>>
CoefZero == CoefRat(RInt(0))

\* math.Exp(x) for the logit x.
Exp(x) == IF x >= 0 THEN <<Pow2(x), 1>> ELSE <<1, Pow2(-x)>>

RECURSIVE RPow(_, _)
RPow(a, n) == IF n = 0 THEN RInt(1) ELSE RTimes(RPow(a, n - 1), a)

\* c[1] + c[2]*e + c[3]*e^2 + ..., the bracket of a Taylor coefficient.
RECURSIVE Bracket(_, _, _)
Bracket(c, e, j) ==
    IF j > Len(c) THEN RInt(0)
    ELSE RPlus(RTimes(RInt(c[j]), RPow(e, j - 1)), Bracket(c, e, j + 1))

\* The brackets of coefficients 3 to 9, by increasing power of exp.
Eulerian ==
    <<<<-1, 1>>,
      <<1, -4, 1>>,
      <<-1, 11, -11, 1>>,
      <<1, -26, 66, -26, 1>>,
      <<-1, 57, -302, 302, -57, 1>>,
      <<1, -120, 1191, -2416, 1191, -120, 1>>,
      <<-1, 247, -4293, 15619, -15619, 4293, -247, 1>>>>

RECURSIVE Factorial(_)
Factorial(n) == IF n = 0 THEN 1 ELSE n * Factorial(n - 1)

\* newPolynomialLogSigmoid for -22 < x (neither exponential overflows, no
\* term is NaN): logValue, 1/(exp+1), -1/2*exp/expP2, and for n = 3..9
\* (+-1/n!) * exp * (bracket) / expP^n.
newPolynomialLogSigmoid(x) ==
    LET exp == Exp(x)
        expP == RAdd(exp, RInt(1))
        sign(n) == IF n % 2 = 0 THEN -1 ELSE 1
    IN [n \in 1..10 |->
          IF n = 1 THEN CoefLogSigmoid(x)
          ELSE IF n = 2 THEN CoefRat(RDiv(RInt(1), expP))
          ELSE IF n = 3 THEN CoefRat(ROver(RTimes(<<-1, 2>>, exp), RPow(expP, 2)))
          ELSE CoefRat(ROver(RTimes(RTimes(<<sign(n - 1), Factorial(n - 1)>>, exp),
                                    Bracket(Eulerian[n - 3], exp, 1)),
                             RPow(expP, n - 1)))]

\* newPolynomialLogSigmoid on the modelled logits, computed once.
LogSigmoidPolynomial == [x \in PolyLogits |-> newPolynomialLogSigmoid(x)]

\* Polynomial.FlipX, Add and Scale.
FlipX(p) == [i \in 1..Len(p) |-> IF (i - 1) % 2 = 1 THEN CoefScale(p[i], RInt(-1)) ELSE p[i]]

PolyAdd(p, p1) ==
    [i \in 1..Max(Len(p), Len(p1)) |->
        CoefAdd(IF i <= Len(p) THEN p[i] ELSE CoefZero,
                IF i <= Len(p1) THEN p1[i] ELSE CoefZero)]

PolyScale(p, c) == [i \in 1..Len(p) |-> CoefScale(p[i], c)]

LossPolynomialSize == 10

\* Sigmoid.LossPolynomials.
LossPolynomials(outputs, targets) ==
    [i \in 1..Len(outputs) |->
        LET x == outputs[i]
            t == targets[i]
            p1 == PolyScale(LogSigmoidPolynomial[x], t)
            p2 == PolyScale(FlipX(LogSigmoidPolynomial[-x]), RSub(RInt(1), t))
        IN PolyScale(PolyAdd(p1, p2), RInt(-1))]

\* Mutation: the polynomials are appended whole.
RECURSIVE PolynomialSampleVectorWhole(_)
PolynomialSampleVectorWhole(polynomials) ==
    IF polynomials = <<>> THEN <<>>
    ELSE Head(polynomials) \o PolynomialSampleVectorWhole(Tail(polynomials))

\* PolynomialHeuristic.SampleVector: per polynomial, a zero and then p[1:].
RECURSIVE PolynomialSampleVector(_)
PolynomialSampleVector(polynomials) ==
    IF polynomials = <<>> THEN <<>>
    ELSE <<CoefZero>> \o Tail(Head(polynomials))
            \o PolynomialSampleVector(Tail(polynomials))

PolyMaxDim == 2    \* polynomials: largest output dimension
PolyTargets == {RInt(0), RInt(1), <<1, 2>>}

InitPoly ==
    /\ \E d \in 1..PolyMaxDim :
       \E out \in [1..d -> PolyLogits], target \in [1..d -> PolyTargets] :
          stp = [pc |-> "call",
                 ts |-> Timestep(NewBitmap(0), out, target),
                 polynomials |-> <<>>, vector |-> <<>>]
    /\ PruneIdle /\ ScaleIdle /\ OptimalIdle /\ SortIdle
    /\ FnIdle /\ EvalIdle /\ AllIdle /\ BuildIdle

\* Sigmoid{}.LossPolynomials(ts.Output, ts.Target) returns.
CallLossPolynomials ==
    /\ stp.pc = "call"
    /\ stp' = [stp EXCEPT !.pc = "polynomials",
                          !.polynomials = LossPolynomials(stp.ts.Output, stp.ts.Target)]
    /\ UNCHANGED <<pr, sc, of, sf, fnVars, evalVars, allVars, buildVars>>

\* PolynomialHeuristic{Loss: Sigmoid{}}.SampleVector(sample) returns.
CallPolynomialSampleVector ==
    /\ stp.pc = "call"
    /\ LET polynomials == LossPolynomials(stp.ts.Output, stp.ts.Target)
       IN stp' = [stp EXCEPT !.pc = "vector", !.polynomials = polynomials,
                             !.vector = PolynomialSampleVector(polynomials)]
    /\ UNCHANGED <<pr, sc, of, sf, fnVars, evalVars, allVars, buildVars>>

NextPoly == CallLossPolynomials \/ CallPolynomialSampleVector

SpecPoly == InitPoly /\ [][NextPoly]_vars

\* The loss of coordinate i at its output: -(t * log(sigmoid(x)) + (1 - t) *
\* log(sigmoid(-x))).
CoordinateLoss(i) ==
    CoefScale(CoefAdd(CoefScale(CoefLogSigmoid(stp.ts.Output[i]), stp.ts.Target[i]),
                      CoefScale(CoefLogSigmoid(-stp.ts.Output[i]),
                                RSub(RInt(1), stp.ts.Target[i]))),
              RInt(-1))

====
